---- MODULE Spec2Model ----
(***************************************************************************)
(* Dynamic Power Limiter (DPL) of OpenDTU-OnBattery, src/src/PowerLimiter.cpp *)
(*                                                                         *)
(* One state machine: the fields of PowerLimiterClass, the configuration   *)
(* the web handlers write, the command state of the inverters the DPL      *)
(* talks to, and the millisecond clock.  One call of loop() is one step.   *)
(*                                                                         *)
(* Units: time in ms, power in W, readings that the code holds as floats   *)
(* are fixed point: meter and AC power in 0.1 W, voltages in mV, solar     *)
(* current in mA, efficiency in 0.1 %.  The clock is modelled below its    *)
(* 32-bit wrap (uptime < 49.7 days).                                       *)
(***************************************************************************)
EXTENDS Integers, Sequences, FiniteSets, TLC

VARIABLES
    now,                          \* millis()
    timeSynced,                   \* getLocalTime() succeeds
    config,                       \* Configuration.get()
    mode,                         \* _mode
    inverter,                     \* _inverter (NoInverter = nullptr)
    shutdownTimeout,              \* _shutdownTimeout
    lastStatus,                   \* _lastStatus
    lastCalculation,              \* _lastCalculation
    calculationBackoffMs,         \* _calculationBackoffMs
    batteryDischargeEnabled,      \* _batteryDischargeEnabled
    nextInverterRestart,          \* _nextInverterRestart
    nextCalculateCheck,           \* _nextCalculateCheck
    fullSolarPassThroughEnabled,  \* _fullSolarPassThroughEnabled
    lastRequestedPowerLimit,      \* _lastRequestedPowerLimit
    lastPowerLimitMillis,         \* _lastPowerLimitMillis
    limitCmd,                     \* per inverter: SystemConfigPara()->getLastLimitCommandSuccess()
    powerCmd,                     \* per inverter: PowerCommand()->getLastPowerCommandSuccess()
    last,                         \* history: what the call of loop() that led here read and did
    hist,                         \* history: counters kept across calls of loop()
    call,                         \* history: the single method call that led here
    tmpFrame,                     \* VeDirectShunt._tmpFrame
    veFrame,                      \* VeDirectShunt.veFrame
    lastUpdate,                   \* VeDirectShunt._lastUpdate
    frames                        \* history: the frames received by VeDirectShunt

\* the fields of PowerLimiterClass, its collaborators and its history
limiterVars ==
    <<now, timeSynced, config, mode, inverter, shutdownTimeout, lastStatus,
      lastCalculation, calculationBackoffMs, batteryDischargeEnabled,
      nextInverterRestart, nextCalculateCheck, fullSolarPassThroughEnabled,
      lastRequestedPowerLimit, lastPowerLimitMillis, limitCmd, powerCmd,
      last, hist, call>>

\* the fields of VeDirectShuntController and its history
shuntVars == <<tmpFrame, veFrame, lastUpdate, frames>>

vars == <<limiterVars, shuntVars>>

-----------------------------------------------------------------------------
(* Bounds of the model *)

\* the history counts consecutive no-op evaluations up to here
MaxNoOps == 4

\* the instants (ms since boot) at which the model looks at the system
Instants == {0, 10000, 20000, 30000, 40000, 70000}

\* the instants of the specification with configuration changes
AdminInstants == {0, 10000, 20000}

\* minute of the day at boot (23:59)
BootMinuteOfDay == 23 * 60 + 59

-----------------------------------------------------------------------------
(* Program constants *)

ShutdownTimeoutMs == 10000
CalculationBackoffMsDefault == 128
CalculationBackoffMsCap == 1024
PowerLimitMaxAgeMs == 60000
PowerMeterTimeoutMs == 30000
SettlingMs == 3000
RestartCheckIntervalMs == 5000
MinSolarPower == 20
SocMaxAgeSeconds == 60
PeakEfficiency == 967

NoInverter == 0
Inverters == {1, 2}
\* PowerLimiter_InverterId 3 is a position without an inverter
InverterIds == {1, 2, 3}

EMPTY_WHEN_FULL == 0
EMPTY_AT_NIGHT == 1

Modes == {"Normal", "Disabled", "UnconditionalFullSolarPassthrough"}

\* LastCommandSuccess; the DPL only tests for CMD_PENDING, a failed command
\* (CMD_NOK) is not told apart from CMD_OK
CmdStates == {"CMD_OK", "CMD_PENDING"}

Min(a, b) == IF a < b THEN a ELSE b
Max(a, b) == IF a > b THEN a ELSE b
Abs(a) == IF a < 0 THEN -a ELSE a

\* round() and static_cast<int>() of a value held in tenths
RoundTenths(x) == IF x >= 0 THEN (x + 5) \div 10 ELSE -((-x + 5) \div 10)
TruncTenths(x) == IF x >= 0 THEN x \div 10 ELSE -((-x) \div 10)
\* round(a / b) for b > 0
RoundDiv(a, b) == IF a >= 0 THEN (2 * a + b) \div (2 * b) ELSE -((2 * (-a) + b) \div (2 * b))
\* static_cast<int32_t>(a / b) for b > 0
TruncDiv(a, b) == IF a >= 0 THEN a \div b ELSE -((-a) \div b)

\* uint32_t where the value can pass 2^31: the pair of its 16-bit halves
Half == 65536
U32(x) == [hi |-> x \div Half, lo |-> x % Half]
\* the value of a pair below 2^31
Int32(a) == a.hi * Half + a.lo
\* a + b on uint32_t
Add32(a, b) ==
    [hi |-> (a.hi + b.hi + (a.lo + b.lo) \div Half) % Half, lo |-> (a.lo + b.lo) % Half]
\* a * k on uint32_t for k < 2^16
Mul32(a, k) ==
    LET kh == k \div 256
        kl == k % 256
        low == U32(a.lo * kl)
        mid == [hi |-> ((a.lo * kh) \div 256) % Half, lo |-> ((a.lo * kh) % 256) * 256]
        high == [hi |-> (a.hi * kl + ((a.hi * kh) % 256) * 256) % Half, lo |-> 0]
    IN  Add32(Add32(low, mid), high)
\* a <= b and a > b on uint32_t
Leq32(a, b) == a.hi < b.hi \/ (a.hi = b.hi /\ a.lo <= b.lo)
Gt32(a, b) == ~Leq32(a, b)

-----------------------------------------------------------------------------
(* Configuration and inputs *)

BaseConfig ==
    [ PowerLimiter_Enabled |-> TRUE,
      PowerLimiter_InverterId |-> 1,
      PowerMeter_Enabled |-> TRUE,
      Vedirect_Enabled |-> TRUE,
      Battery_Enabled |-> TRUE,
      PowerLimiter_SolarPassThroughEnabled |-> TRUE,
      PowerLimiter_SolarPassThroughLosses |-> 3,
      PowerLimiter_BatteryDrainStategy |-> EMPTY_WHEN_FULL,
      PowerLimiter_IsInverterBehindPowerMeter |-> TRUE,
      PowerLimiter_TargetPowerConsumption |-> 0,
      PowerLimiter_TargetPowerConsumptionHysteresis |-> 30,
      PowerLimiter_LowerPowerLimit |-> 50,
      PowerLimiter_UpperPowerLimit |-> 800,
      PowerLimiter_BatterySocStartThreshold |-> 80,
      PowerLimiter_BatterySocStopThreshold |-> 20,
      PowerLimiter_VoltageStartThreshold |-> 26000,
      PowerLimiter_VoltageStopThreshold |-> 24000,
      PowerLimiter_VoltageLoadCorrectionFactor |-> 1,
      PowerLimiter_RestartHour |-> 0,
      PowerLimiter_FullSolarPassThroughSoc |-> 95,
      PowerLimiter_FullSolarPassThroughStartVoltage |-> 27000,
      PowerLimiter_FullSolarPassThroughStopVoltage |-> 26500 ]

\* the configuration without a scheduled inverter restart
AdminConfig == [BaseConfig EXCEPT !.PowerLimiter_RestartHour = -1]

\* the configurations the web handler writes in this model
PowerLimiterConfigs ==
    { AdminConfig,
      [AdminConfig EXCEPT !.PowerLimiter_Enabled = FALSE],
      [AdminConfig EXCEPT !.PowerLimiter_InverterId = 2] }

\* the modes the MQTT handler writes in this model
AdminModes == {"Normal", "Disabled"}

\* Statistics(): AC power (0.1 W), DC voltage (mV), efficiency (0.1 %), DC channels
StatsReadings ==
    { [pac |-> 0,    udc |-> 25000, eff |-> 0,   dcTotal |-> 2, dcProd |-> 0] }

\* VeDirectMppt: isDataValid(), veFrame.V (mV), veFrame.I (mA), veFrame.PPV (W)
SolarReadings ==
    { [valid |-> FALSE, V |-> 0,     I |-> 0,     PPV |-> 0],
      [valid |-> TRUE,  V |-> 26000, I |-> 12000, PPV |-> 320] }

\* Battery.getStats(): isValid(), getSoCAgeSeconds(), getSoC()
BatteryReadings ==
    { [valid |-> TRUE,  socAge |-> 0,  soc |-> 15],
      [valid |-> TRUE,  socAge |-> 0,  soc |-> 90] }

\* PowerMeter.getPowerTotal() in 0.1 W
MeterPowers == {604, 806, 3000}

\* what the collaborators report during one call of loop():
\*   isReachable(), isProducing(), getEnableCommands(), DevInfo()->getMaxPower()
\*   of the inverter the call asks,
\*   the time of the last command answer (the later getLastUpdateCommand() of
\*   limit and power commands), of the last statistics and of the last meter
\*   reading, and the readings of statistics, solar charger, battery, power
\*   meter and HuaweiCan.getAutoPowerStatus()
DefaultInput ==
    [ reachable |-> TRUE, producing |-> FALSE, enableCommands |-> TRUE, maxPower |-> 600,
      lastUpdateCommand |-> 0, statsLastUpdate |-> now, powerMeterLastUpdate |-> now,
      stats |-> [pac |-> 0, udc |-> 25000, eff |-> 0, dcTotal |-> 2, dcProd |-> 0],
      solar |-> [valid |-> FALSE, V |-> 0, I |-> 0, PPV |-> 0],
      battery |-> [valid |-> FALSE, socAge |-> 0, soc |-> 0],
      meterPower |-> 604, autoPower |-> FALSE ]

StatusInputs == [ reachable : BOOLEAN, producing : BOOLEAN ]

DeviceInputs == [ enableCommands : BOOLEAN, maxPower : {0, 600} ]

UpdateTimes == {0, now}

TimeInputs ==
    [ lastUpdateCommand : UpdateTimes, statsLastUpdate : UpdateTimes,
      powerMeterLastUpdate : UpdateTimes ]

SolarInputs == [ stats : StatsReadings, solar : SolarReadings ]

ReadingInputs ==
    [ stats : StatsReadings, solar : SolarReadings, battery : BatteryReadings,
      meterPower : MeterPowers, autoPower : {FALSE} ]

\* tm_hour, tm_min of getLocalTime()
Hour(t) == ((BootMinuteOfDay + t \div 60000) % 1440) \div 60
Minute(t) == ((BootMinuteOfDay + t \div 60000) % 1440) % 60

-----------------------------------------------------------------------------
(* The Inverter collaborator (Hoymiles library): sending a command puts   *)
(* the respective last-command state to pending; the answer arrives later. *)

sendActivePowerControlRequest(m, inv, limit, type) ==
    [m EXCEPT !.sent = Append(@, [cmd |-> "limit", inv |-> inv, value |-> limit,
                                  type |-> type,
                                  overlap |-> m.limitCmd[inv] = "CMD_PENDING"]),
              !.limitCmd[inv] = "CMD_PENDING"]

sendPowerControlRequest(m, inv, turnOn) ==
    [m EXCEPT !.sent = Append(@, [cmd |-> IF turnOn THEN "start" ELSE "stop",
                                  inv |-> inv, value |-> 0, type |-> "None",
                                  overlap |-> m.powerCmd[inv] = "CMD_PENDING"]),
              !.powerCmd[inv] = "CMD_PENDING"]

sendRestartControlRequest(m, inv) ==
    [m EXCEPT !.sent = Append(@, [cmd |-> "restart", inv |-> inv, value |-> 0,
                                  type |-> "None",
                                  overlap |-> m.powerCmd[inv] = "CMD_PENDING"]),
              !.powerCmd[inv] = "CMD_PENDING"]

-----------------------------------------------------------------------------
(* PowerLimiterClass.  m is the object during one call of loop(): its     *)
(* fields, the command state of the inverters, the commands sent so far   *)
(* (sent), the return value of the last call (ret) and the history of the *)
(* call.  in is what the collaborators report during the call.            *)

\* the fields of the object at the start of a call of loop()
Machine ==
    [ inverter |-> inverter,
      shutdownTimeout |-> shutdownTimeout,
      lastStatus |-> lastStatus,
      lastCalculation |-> lastCalculation,
      calculationBackoffMs |-> calculationBackoffMs,
      batteryDischargeEnabled |-> batteryDischargeEnabled,
      nextInverterRestart |-> nextInverterRestart,
      nextCalculateCheck |-> nextCalculateCheck,
      fullSolarPassThroughEnabled |-> fullSolarPassThroughEnabled,
      lastRequestedPowerLimit |-> lastRequestedPowerLimit,
      lastPowerLimitMillis |-> lastPowerLimitMillis,
      limitCmd |-> limitCmd,
      powerCmd |-> powerCmd,
      sent |-> << >>,
      ret |-> FALSE,
      path |-> "None",
      shutdownCalled |-> FALSE,
      shutdownRet |-> FALSE,
      setCalled |-> FALSE,
      setRet |-> FALSE,
      setRequested |-> 0,
      setEffective |-> 0,
      setLast |-> 0,
      setAge |-> 0,
      setSent |-> << >>,
      commitCalled |-> FALSE,
      commitLimit |-> 0,
      commitEnable |-> FALSE,
      commitSent |-> << >>,
      stopReached |-> FALSE,
      startReached |-> FALSE,
      calcCalled |-> FALSE,
      calcSolar |-> FALSE,
      calcDischarge |-> FALSE ]

\* the status is current after every call; the log line and its timestamp
\* (_lastStatusPrinted) only throttle the output and are left out
announceStatus(m, status) == [m EXCEPT !.lastStatus = status]

\* the history of a call of commitPowerLimit(): its arguments and the
\* commands it sent
Committed(m, x, limit, enablePowerProduction) ==
    [x EXCEPT !.commitCalled = TRUE, !.commitLimit = limit,
              !.commitEnable = enablePowerProduction,
              !.commitSent = SubSeq(x.sent, Len(m.sent) + 1, Len(x.sent))]

\* variant of commitPowerLimit: power production is enabled before the limit
\* is set
commitPowerLimitStartFirst(m, in, inv, limit, enablePowerProduction) ==
    LET Record(s) == [s EXCEPT !.lastRequestedPowerLimit = limit,
                               !.lastPowerLimitMillis = now]
        Limit(s) == Record(sendActivePowerControlRequest(s, inv, limit, "AbsolutNonPersistent"))
    IN  Committed(m, Limit(IF (~enablePowerProduction /\ in.producing)
                                  \/ (enablePowerProduction /\ ~in.producing)
                              THEN sendPowerControlRequest(m, inv, enablePowerProduction)
                              ELSE m),
                  limit, enablePowerProduction)

commitPowerLimit(m, in, inv, limit, enablePowerProduction) ==
    LET Start(s) == IF enablePowerProduction /\ ~in.producing
                    THEN sendPowerControlRequest(s, inv, TRUE) ELSE s
        Record(s) == Start([s EXCEPT !.lastRequestedPowerLimit = limit,
                                     !.lastPowerLimitMillis = now])
        Limit(s) == Record(sendActivePowerControlRequest(s, inv, limit, "AbsolutNonPersistent"))
    IN  Committed(m, Limit(IF ~enablePowerProduction /\ in.producing
                              THEN sendPowerControlRequest(m, inv, FALSE) ELSE m),
                  limit, enablePowerProduction)

\* variant of isReachable: every inverter counts as reachable
isReachableAlways(in) == TRUE

\* _inverter->isReachable() as shutdown() and loop() test it
isReachable(in) == in.reachable

\* variant of ShutdownDone: the shutdown attempt never times out
ShutdownDoneNoTimeout(m, in) ==
    \/ m.inverter = NoInverter
    \/ ~in.producing

\* variant of ShutdownDone: the timer is not compared with the clock
ShutdownDoneAnyTimer(m, in) ==
    \/ m.inverter = NoInverter
    \/ ~in.producing
    \/ m.shutdownTimeout > 0

\* shutdown(): the inverter is (assumed to be) shut down
ShutdownDone(m, in) ==
    \/ m.inverter = NoInverter
    \/ ~in.producing
    \/ (m.shutdownTimeout > 0 /\ m.shutdownTimeout < now)

\* variant of shutdown: the timer is left alone when the binding is cleared
shutdownKeepsTimer(m0, in, status) ==
    LET m == [announceStatus(m0, status) EXCEPT !.shutdownCalled = TRUE]
        r(x, v) == [x EXCEPT !.ret = v, !.shutdownRet = v]
    IN  IF ShutdownDone(m, in)
        THEN r([m EXCEPT !.inverter = NoInverter], FALSE)
        ELSE IF ~isReachable(in) THEN r(m, TRUE)
        ELSE LET t == [m EXCEPT !.shutdownTimeout =
                           IF @ = 0 THEN now + ShutdownTimeoutMs ELSE @]
             IN  IF t.limitCmd[t.inverter] = "CMD_PENDING" THEN r(t, TRUE)
                 ELSE IF t.powerCmd[t.inverter] = "CMD_PENDING" THEN r(t, TRUE)
                 ELSE r(commitPowerLimit(t, in, t.inverter,
                            config.PowerLimiter_LowerPowerLimit, FALSE), TRUE)

shutdown(m0, in, status) ==
    LET m == [announceStatus(m0, status) EXCEPT !.shutdownCalled = TRUE]
        r(x, v) == [x EXCEPT !.ret = v, !.shutdownRet = v]
    IN  IF ShutdownDone(m, in)
        THEN r([m EXCEPT !.inverter = NoInverter, !.shutdownTimeout = 0], FALSE)
        ELSE IF ~isReachable(in) THEN r(m, TRUE)
        ELSE LET t == [m EXCEPT !.shutdownTimeout =
                           IF @ = 0 THEN now + ShutdownTimeoutMs ELSE @]
             IN  IF t.limitCmd[t.inverter] = "CMD_PENDING" THEN r(t, TRUE)
                 ELSE IF t.powerCmd[t.inverter] = "CMD_PENDING" THEN r(t, TRUE)
                 ELSE r(commitPowerLimit(t, in, t.inverter,
                            config.PowerLimiter_LowerPowerLimit, FALSE), TRUE)

\* variant of EffectivePowerLimit: the scaled limit is not compared with the
\* maximum power of the inverter
EffectivePowerLimitUnclamped(in, newPowerLimit) ==
    LET e1 == Min(newPowerLimit, config.PowerLimiter_UpperPowerLimit)
    IN  IF in.stats.dcProd > 0 /\ in.stats.dcProd # in.stats.dcTotal
        THEN RoundDiv(e1 * in.stats.dcTotal, in.stats.dcProd) ELSE e1

\* effPowerLimit of setNewPowerLimit: upper bound, channel scaling, max power
EffectivePowerLimit(in, newPowerLimit) ==
    LET e1 == Min(newPowerLimit, config.PowerLimiter_UpperPowerLimit)
        e2 == IF in.stats.dcProd > 0 /\ in.stats.dcProd # in.stats.dcTotal
              THEN RoundDiv(e1 * in.stats.dcTotal, in.stats.dcProd) ELSE e1
    IN  Min(e2, in.maxPower)

\* variant of WithinHysteresis: the age comparison is inverted
WithinHysteresisAgeInverted(diff, ageMillis) ==
    diff < config.PowerLimiter_TargetPowerConsumptionHysteresis
        /\ ageMillis > PowerLimitMaxAgeMs

\* variant of WithinHysteresis: the age of the last command is ignored
WithinHysteresisNoAge(diff, ageMillis) ==
    diff < config.PowerLimiter_TargetPowerConsumptionHysteresis

\* the hysteresis test of setNewPowerLimit
WithinHysteresis(diff, ageMillis) ==
    diff < config.PowerLimiter_TargetPowerConsumptionHysteresis
        /\ ageMillis < PowerLimitMaxAgeMs

\* variant of BelowLowerPowerLimit: no limit is too low
BelowLowerPowerLimitNever(newPowerLimit) == FALSE

\* setNewPowerLimit: the limit is below the threshold, stop the inverter
BelowLowerPowerLimit(newPowerLimit) ==
    newPowerLimit < config.PowerLimiter_LowerPowerLimit

\* variant of setNewPowerLimit: the shutdown for a limit below the threshold
\* announces a status of its own
setNewPowerLimitAnnounces(m0, in, inv, newPowerLimit) ==
    LET m == [m0 EXCEPT !.setCalled = TRUE, !.setRequested = newPowerLimit,
                        !.setEffective = EffectivePowerLimit(in, newPowerLimit),
                        !.setLast = m0.lastRequestedPowerLimit,
                        !.setAge = now - m0.lastPowerLimitMillis]
        r(x, v) == [x EXCEPT !.ret = v, !.setRet = v,
                             !.setSent = SubSeq(x.sent, Len(m0.sent) + 1, Len(x.sent))]
        viaShutdown(s) == r(s, s.ret)
    IN  IF BelowLowerPowerLimit(newPowerLimit)
        THEN viaShutdown(shutdown(m, in, "Stable"))
        ELSE LET effPowerLimit == EffectivePowerLimit(in, newPowerLimit)
                 diff == Abs(effPowerLimit - m.lastRequestedPowerLimit)
                 ageMillis == now - m.lastPowerLimitMillis
             IN  IF WithinHysteresis(diff, ageMillis)
                 THEN r(m, FALSE)
                 ELSE r(commitPowerLimit(m, in, inv, effPowerLimit, TRUE), TRUE)

setNewPowerLimit(m0, in, inv, newPowerLimit) ==
    LET m == [m0 EXCEPT !.setCalled = TRUE, !.setRequested = newPowerLimit,
                        !.setEffective = EffectivePowerLimit(in, newPowerLimit),
                        !.setLast = m0.lastRequestedPowerLimit,
                        !.setAge = now - m0.lastPowerLimitMillis]
        r(x, v) == [x EXCEPT !.ret = v, !.setRet = v,
                             !.setSent = SubSeq(x.sent, Len(m0.sent) + 1, Len(x.sent))]
        viaShutdown(s) == r(s, s.ret)
    IN  IF BelowLowerPowerLimit(newPowerLimit)
        THEN viaShutdown(shutdown(m, in, m.lastStatus))
        ELSE LET effPowerLimit == EffectivePowerLimit(in, newPowerLimit)
                 diff == Abs(effPowerLimit - m.lastRequestedPowerLimit)
                 ageMillis == now - m.lastPowerLimitMillis
             IN  IF WithinHysteresis(diff, ageMillis)
                 THEN r(m, FALSE)
                 ELSE r(commitPowerLimit(m, in, inv, effPowerLimit, TRUE), TRUE)

inverterPowerDcToAc(in, dcPower) ==
    LET inverterEfficiencyFactor == IF in.stats.eff > 0 THEN in.stats.eff ELSE PeakEfficiency
        lossesFactor == 100 - config.PowerLimiter_SolarPassThroughLosses
    IN  TruncDiv(dcPower * inverterEfficiencyFactor * lossesFactor, 100000)

\* variant of getLoadCorrectedVoltage: the statistics are read without a
\* bound inverter
getLoadCorrectedVoltageUnbound(m, in) ==
    IF in.stats.udc <= 0 THEN 0
    ELSE 10 * in.stats.udc
            + in.stats.pac * config.PowerLimiter_VoltageLoadCorrectionFactor

\* 0.1 mV; 0 without an inverter or without DC voltage
getLoadCorrectedVoltage(m, in) ==
    IF m.inverter = NoInverter THEN 0
    ELSE IF in.stats.udc <= 0 THEN 0
    ELSE 10 * in.stats.udc
            + in.stats.pac * config.PowerLimiter_VoltageLoadCorrectionFactor

Compare(op, a, b) ==
    CASE op = "ge" -> a >= b
      [] op = "le" -> a <= b
      [] op = "lt" -> a < b

testThreshold(m, in, socThreshold, voltThreshold, op) ==
    IF config.Battery_Enabled /\ socThreshold > 0
          /\ in.battery.valid /\ in.battery.socAge < SocMaxAgeSeconds
    THEN Compare(op, in.battery.soc, socThreshold)
    ELSE IF voltThreshold <= 0 THEN FALSE
    ELSE Compare(op, getLoadCorrectedVoltage(m, in), 10 * voltThreshold)

isStartThresholdReached(m, in) ==
    testThreshold(m, in, config.PowerLimiter_BatterySocStartThreshold,
                  config.PowerLimiter_VoltageStartThreshold, "ge")

isStopThresholdReached(m, in) ==
    testThreshold(m, in, config.PowerLimiter_BatterySocStopThreshold,
                  config.PowerLimiter_VoltageStopThreshold, "le")

isBelowStopThreshold(m, in) ==
    testThreshold(m, in, config.PowerLimiter_BatterySocStopThreshold,
                  config.PowerLimiter_VoltageStopThreshold, "lt")

\* variant of canUseDirectSolarPower: a battery at the stop threshold counts
\* as below it
canUseDirectSolarPowerAtStop(m, in) ==
    IF \/ ~config.PowerLimiter_SolarPassThroughEnabled
       \/ isStopThresholdReached(m, in)
       \/ ~config.Vedirect_Enabled
       \/ ~in.solar.valid
    THEN FALSE
    ELSE in.solar.PPV >= MinSolarPower

canUseDirectSolarPower(m, in) ==
    IF \/ ~config.PowerLimiter_SolarPassThroughEnabled
       \/ isBelowStopThreshold(m, in)
       \/ ~config.Vedirect_Enabled
       \/ ~in.solar.valid
    THEN FALSE
    ELSE in.solar.PPV >= MinSolarPower

\* veFrame.V * veFrame.I, converted to int32_t
SolarPower(in) == TruncDiv(in.solar.V * in.solar.I, 1000000)

getSolarChargePower(m, in) ==
    IF ~canUseDirectSolarPower(m, in) THEN 0 ELSE SolarPower(in)

\* variant of useFullSolarPassthrough: the latch follows the start condition
\* and does not keep its value
useFullSolarPassthroughNoLatch(m, in) ==
    IF ~config.PowerLimiter_SolarPassThroughEnabled THEN [m EXCEPT !.ret = FALSE]
    ELSE LET b == testThreshold(m, in, config.PowerLimiter_FullSolarPassThroughSoc,
                      config.PowerLimiter_FullSolarPassThroughStartVoltage, "ge")
         IN  [m EXCEPT !.fullSolarPassThroughEnabled = b, !.ret = b]

\* returns the object with the latch updated and the result in ret
useFullSolarPassthrough(m, in) ==
    IF ~config.PowerLimiter_SolarPassThroughEnabled THEN [m EXCEPT !.ret = FALSE]
    ELSE LET a == IF testThreshold(m, in, config.PowerLimiter_FullSolarPassThroughSoc,
                        config.PowerLimiter_FullSolarPassThroughStartVoltage, "ge")
                  THEN TRUE ELSE m.fullSolarPassThroughEnabled
             b == IF testThreshold(m, in, config.PowerLimiter_FullSolarPassThroughSoc,
                        config.PowerLimiter_FullSolarPassThroughStopVoltage, "lt")
                  THEN FALSE ELSE a
         IN  [m EXCEPT !.fullSolarPassThroughEnabled = b, !.ret = b]

\* variant of NoEnergySource: case 1 of the logic table is missing
NoEnergySourceNever(solarPowerEnabled, batteryDischarge) == FALSE

\* calcPowerLimit, case 1 of the logic table: no energy source is available
NoEnergySource(solarPowerEnabled, batteryDischarge) ==
    ~solarPowerEnabled /\ ~batteryDischarge

\* variant of PowerLimitOf: solar power does not cap the limit in case 2
PowerLimitOfNoSolarCap(newPowerLimit, adjustedVictronChargePower, solarPowerEnabled, batteryDischarge, fullSolarPassthrough, autoPower) ==
    IF batteryDischarge /\ fullSolarPassthrough
    THEN Max(newPowerLimit, adjustedVictronChargePower)
    ELSE IF autoPower THEN 0
    ELSE newPowerLimit

\* variant of PowerLimitOf: full solar passthrough does not raise the limit
PowerLimitOfNoPassthrough(newPowerLimit, adjustedVictronChargePower, solarPowerEnabled, batteryDischarge, fullSolarPassthrough, autoPower) ==
    IF batteryDischarge /\ fullSolarPassthrough THEN newPowerLimit
    ELSE IF autoPower THEN 0
    ELSE IF solarPowerEnabled /\ ~batteryDischarge
    THEN Min(newPowerLimit, adjustedVictronChargePower)
    ELSE newPowerLimit

\* variant of PowerLimitOf: the auto power status of the PSU is ignored
PowerLimitOfNoAutoPower(newPowerLimit, adjustedVictronChargePower, solarPowerEnabled, batteryDischarge, fullSolarPassthrough, autoPower) ==
    IF batteryDischarge /\ fullSolarPassthrough
    THEN Max(newPowerLimit, adjustedVictronChargePower)
    ELSE IF solarPowerEnabled /\ ~batteryDischarge
    THEN Min(newPowerLimit, adjustedVictronChargePower)
    ELSE newPowerLimit

\* calcPowerLimit from the test of full solar passthrough to its end
PowerLimitOf(newPowerLimit, adjustedVictronChargePower, solarPowerEnabled, batteryDischarge, fullSolarPassthrough, autoPower) ==
    IF batteryDischarge /\ fullSolarPassthrough
    THEN Max(newPowerLimit, adjustedVictronChargePower)
    ELSE IF autoPower THEN 0
    ELSE IF solarPowerEnabled /\ ~batteryDischarge
    THEN Min(newPowerLimit, adjustedVictronChargePower)
    ELSE newPowerLimit

\* returns the limit in lim and the object (the latch may change) in m
calcPowerLimit(m, in, solarPowerEnabled, batteryDischarge) ==
    LET acPower == IF config.PowerLimiter_IsInverterBehindPowerMeter
                   THEN TruncTenths(in.stats.pac) ELSE 0
        raw == RoundTenths(in.meterPower) + acPower
                  - config.PowerLimiter_TargetPowerConsumption
        \* useFullSolarPassthrough() is only called if batteryDischargeEnabled
        Limit(adjustedVictronChargePower, f) ==
            [lim |-> PowerLimitOf(raw, adjustedVictronChargePower, solarPowerEnabled,
                                  batteryDischarge, batteryDischarge /\ f.ret,
                                  in.autoPower),
             m |-> f]
    IN  IF NoEnergySource(solarPowerEnabled, batteryDischarge) THEN [lim |-> 0, m |-> m]
        ELSE Limit(inverterPowerDcToAc(in, getSolarChargePower(m, in)),
                   IF batteryDischarge THEN useFullSolarPassthrough(m, in) ELSE m)

\* variant of MinutesUntilRestart: a restart hour equal to the current hour
\* is taken to be on the same day
MinutesUntilRestartSameHour(restartHour, hour, minute) ==
    LET dayMinutes == hour * 60 + minute
        targetMinutes == restartHour * 60
    IN  IF restartHour >= hour THEN targetMinutes - dayMinutes
        ELSE 1440 - dayMinutes + targetMinutes

\* calcNextInverterRestart: the offset to the next restart in minutes
MinutesUntilRestart(restartHour, hour, minute) ==
    LET dayMinutes == hour * 60 + minute
        targetMinutes == restartHour * 60
    IN  IF restartHour > hour THEN targetMinutes - dayMinutes
        ELSE 1440 - dayMinutes + targetMinutes

\* variant of NextInverterRestart: a negative restart hour is an hour like
\* any other
NextInverterRestartNoDisable(restartHour) ==
    IF timeSynced
    THEN MinutesUntilRestart(restartHour, Hour(now), Minute(now)) * 60000 + now
    ELSE 0

\* calcNextInverterRestart: the schedule under the configured restart hour
NextInverterRestart(restartHour) ==
    IF restartHour < 0 THEN 1
    ELSE IF timeSynced
    THEN MinutesUntilRestart(restartHour, Hour(now), Minute(now)) * 60000 + now
    ELSE 0

calcNextInverterRestart(m) ==
    [m EXCEPT !.nextInverterRestart = NextInverterRestart(config.PowerLimiter_RestartHour)]

\* variant of unconditionalSolarPassthrough: only the solar power that
\* canUseDirectSolarPower() admits is passed through
unconditionalSolarPassthroughIfUsable(m, in, inv) ==
    IF ~config.Vedirect_Enabled \/ ~in.solar.valid
    THEN shutdown(m, in, "NoVeDirect")
    ELSE announceStatus(
             setNewPowerLimit(m, in, inv, inverterPowerDcToAc(in, getSolarChargePower(m, in))),
             "UnconditionalSolarPassthrough")

unconditionalSolarPassthrough(m, in, inv) ==
    IF ~config.Vedirect_Enabled \/ ~in.solar.valid
    THEN shutdown(m, in, "NoVeDirect")
    ELSE announceStatus(
             setNewPowerLimit(m, in, inv, inverterPowerDcToAc(in, SolarPower(in))),
             "UnconditionalSolarPassthrough")

\* variant of RestartDue: the restart waits until the deadline has passed
RestartDueAfterDeadline(m) ==
    m.nextInverterRestart > 1 /\ m.nextInverterRestart < now

\* loop(): the next inverter restart time is reached
RestartDue(m) ==
    m.nextInverterRestart > 1 /\ m.nextInverterRestart <= now

\* loop(): the restart check
RestartCheck(m) ==
    LET Calculate(a) ==
            IF config.PowerLimiter_RestartHour >= 0 /\ a.nextInverterRestart = 0
                 /\ a.nextCalculateCheck < now
            THEN IF timeSynced THEN calcNextInverterRestart(a)
                 ELSE [a EXCEPT !.nextCalculateCheck = @ + RestartCheckIntervalMs]
            ELSE a
    IN  Calculate(IF RestartDue(m)
                  THEN calcNextInverterRestart(sendRestartControlRequest(m, m.inverter))
                  ELSE m)

\* variant of BatteryDischargeEnabled: a reached start threshold has
\* priority over a reached stop threshold
BatteryDischargeEnabledStartFirst(m, in) ==
    LET pt == config.PowerLimiter_SolarPassThroughEnabled
        Policy(start) ==
            LET d1 == IF ~pt /\ start THEN TRUE ELSE m.batteryDischargeEnabled
                d2 == IF pt /\ config.PowerLimiter_BatteryDrainStategy = EMPTY_AT_NIGHT
                      THEN (IF start THEN TRUE ELSE ~canUseDirectSolarPower(m, in))
                      ELSE d1
            IN  IF pt /\ start /\ config.PowerLimiter_BatteryDrainStategy = EMPTY_WHEN_FULL
                THEN TRUE ELSE d2
        Stop(start) ==
            IF isStopThresholdReached(m, in) /\ ~start THEN FALSE ELSE Policy(start)
    IN  Stop(isStartThresholdReached(m, in))

\* variant of BatteryDischargeEnabled: with solar passthrough the battery is
\* discharged when there is no sunshine, whatever the drain strategy is
BatteryDischargeEnabledAnyStrategy(m, in) ==
    LET pt == config.PowerLimiter_SolarPassThroughEnabled
        Policy(start) ==
            IF start THEN TRUE
            ELSE IF pt THEN ~canUseDirectSolarPower(m, in)
            ELSE m.batteryDischargeEnabled
    IN  IF isStopThresholdReached(m, in) THEN FALSE
        ELSE Policy(isStartThresholdReached(m, in))

\* loop(): the battery charging cycle conditions
BatteryDischargeEnabled(m, in) ==
    LET pt == config.PowerLimiter_SolarPassThroughEnabled
        Policy(start) ==
            LET d1 == IF ~pt /\ start THEN TRUE ELSE m.batteryDischargeEnabled
                d2 == IF pt /\ config.PowerLimiter_BatteryDrainStategy = EMPTY_AT_NIGHT
                      THEN (IF start THEN TRUE ELSE ~canUseDirectSolarPower(m, in))
                      ELSE d1
            IN  IF pt /\ start /\ config.PowerLimiter_BatteryDrainStategy = EMPTY_WHEN_FULL
                THEN TRUE ELSE d2
    IN  IF isStopThresholdReached(m, in) THEN FALSE
        ELSE Policy(isStartThresholdReached(m, in))

\* variant of NextBackoff: the doubling is not capped
NextBackoffUncapped(backoff, limitUpdated) ==
    IF ~limitUpdated THEN backoff * 2
    ELSE CalculationBackoffMsDefault

\* variant of NextBackoff: an update does not reset the backoff
NextBackoffNoReset(backoff, limitUpdated) ==
    IF ~limitUpdated THEN Min(CalculationBackoffMsCap, backoff * 2)
    ELSE backoff

\* loop(): the calculation backoff after setNewPowerLimit
NextBackoff(backoff, limitUpdated) ==
    IF ~limitUpdated THEN Min(CalculationBackoffMsCap, backoff * 2)
    ELSE CalculationBackoffMsDefault

\* loop() from the restart check to its end
Evaluate(m0, in) ==
    LET Backoff(s) ==
            LET t == [s EXCEPT !.lastCalculation = now,
                               !.calculationBackoffMs = NextBackoff(@, s.ret)]
            IN  IF ~s.ret THEN announceStatus(t, "Stable") ELSE t
        SetLimit(c, inv) == Backoff(setNewPowerLimit(c.m, in, inv, c.lim))
        Calc(b, solarPowerEnabled) ==
            SetLimit(calcPowerLimit([b EXCEPT !.calcCalled = TRUE,
                                              !.calcSolar = solarPowerEnabled,
                                              !.calcDischarge = b.batteryDischargeEnabled],
                                    in, solarPowerEnabled, b.batteryDischargeEnabled),
                     b.inverter)
        CalcLimit(b) == Calc(b, canUseDirectSolarPower(b, in))
        Discharge(a) ==
            CalcLimit([a EXCEPT !.batteryDischargeEnabled = BatteryDischargeEnabled(a, in),
                                !.stopReached = isStopThresholdReached(a, in),
                                !.startReached = isStartThresholdReached(a, in)])
    IN  Discharge(RestartCheck(m0))

getInverterByPos(pos) == IF pos \in Inverters THEN pos ELSE NoInverter

\* variant of ShutdownInProgress: loop() does not look at the timer
ShutdownInProgressNever(m) == FALSE

\* loop(): a shutdown attempt is in progress
ShutdownInProgress(m) == m.shutdownTimeout > 0

\* loop(): a limit or a power command is pending
CommandPending(m) ==
    IF m.limitCmd[m.inverter] = "CMD_PENDING" THEN "InverterLimitPending"
    ELSE IF m.powerCmd[m.inverter] = "CMD_PENDING" THEN "InverterPowerCmdPending"
    ELSE "None"

\* variant of InverterChanged: loop() picks up the configured inverter at once
InverterChangedNever(m, currentInverter) == FALSE

\* loop(): the DPL is supposed to manage another inverter now
InverterChanged(m, currentInverter) ==
    m.inverter # NoInverter /\ m.inverter # currentInverter

\* variant of PowerMeterOutdated: the age of the reading is not looked at
PowerMeterOutdatedNever(in) == FALSE

\* loop(): the last power meter reading is older than the timeout
PowerMeterOutdated(in) == now - in.powerMeterLastUpdate > PowerMeterTimeoutMs

\* variant of StatsPending: statistics taken at the end of the settling phase
\* are recent enough
StatsPendingAfterEnd(in, settlingEnd) == in.statsLastUpdate < settlingEnd

\* loop(): the inverter statistics are not newer than the settling phase
StatsPending(in, settlingEnd) == in.statsLastUpdate <= settlingEnd

At(m, path) == [m EXCEPT !.path = path]

loop(m, in) ==
    IF ~timeSynced
    THEN At(announceStatus(m, "WaitingForValidTimestamp"), "WaitingForValidTimestamp")
    ELSE IF ShutdownInProgress(m)
    THEN At(shutdown(m, in, m.lastStatus), "ShutdownInProgress")
    ELSE IF ~config.PowerLimiter_Enabled
    THEN At(shutdown(m, in, "DisabledByConfig"), "DisabledByConfig")
    ELSE IF mode = "Disabled"
    THEN At(shutdown(m, in, "DisabledByMqtt"), "DisabledByMqtt")
    ELSE LET currentInverter == getInverterByPos(config.PowerLimiter_InverterId) IN
    IF currentInverter = NoInverter
    THEN At(shutdown(m, in, "InverterInvalid"), "InverterInvalid")
    ELSE IF InverterChanged(m, currentInverter)
    THEN At(shutdown(m, in, "InverterChanged"), "InverterChanged")
    ELSE LET b == [m EXCEPT !.inverter = currentInverter] IN
    IF ~isReachable(in)
    THEN At(announceStatus(b, "InverterOffline"), "InverterOffline")
    ELSE IF ~in.enableCommands
    THEN At(announceStatus(b, "InverterCommandsDisabled"), "InverterCommandsDisabled")
    ELSE IF CommandPending(b) # "None"
    THEN At(announceStatus(b, CommandPending(b)), CommandPending(b))
    ELSE IF in.maxPower <= 0
    THEN At(announceStatus(b, "InverterDevInfoPending"), "InverterDevInfoPending")
    ELSE IF mode = "UnconditionalFullSolarPassthrough"
    THEN At(unconditionalSolarPassthrough(b, in, b.inverter), "UnconditionalSolarPassthrough")
    ELSE IF ~config.PowerMeter_Enabled
    THEN At(shutdown(b, in, "PowerMeterDisabled"), "PowerMeterDisabled")
    ELSE IF PowerMeterOutdated(in)
    THEN At(shutdown(b, in, "PowerMeterTimeout"), "PowerMeterTimeout")
    ELSE LET settlingEnd == in.lastUpdateCommand + SettlingMs IN
    IF now < settlingEnd
    THEN At(announceStatus(b, "Settling"), "Settling")
    ELSE IF StatsPending(in, settlingEnd)
    THEN At(announceStatus(b, "InverterStatsPending"), "InverterStatsPending")
    ELSE IF in.powerMeterLastUpdate <= settlingEnd
    THEN At(announceStatus(b, "PowerMeterPending"), "PowerMeterPending")
    ELSE IF now < b.lastCalculation + b.calculationBackoffMs
    THEN At(announceStatus(b, "Stable"), "Stable")
    ELSE At(Evaluate(b, in), "Evaluate")

-----------------------------------------------------------------------------
(* History.  last describes the call of loop() that produced the current  *)
(* state and is Idle after any other step; hist is kept across calls.     *)

\* nothing was read
NoInput ==
    [ reachable |-> FALSE, producing |-> FALSE, enableCommands |-> FALSE, maxPower |-> 0,
      lastUpdateCommand |-> 0, statsLastUpdate |-> 0, powerMeterLastUpdate |-> 0,
      stats |-> [pac |-> 0, udc |-> 0, eff |-> 0, dcTotal |-> 0, dcProd |-> 0],
      solar |-> [valid |-> FALSE, V |-> 0, I |-> 0, PPV |-> 0],
      battery |-> [valid |-> FALSE, socAge |-> 0, soc |-> 0],
      meterPower |-> 0, autoPower |-> FALSE ]

Idle ==
    [ path |-> "None", in |-> NoInput, reachable |-> FALSE, producing |-> FALSE,
      timeout |-> 0, target |-> NoInverter,
      sent |-> << >>, shutdownCalled |-> FALSE, shutdownRet |-> FALSE,
      setCalled |-> FALSE, setRet |-> FALSE, setRequested |-> 0,
      setEffective |-> 0, setLast |-> 0, setAge |-> 0, setSent |-> << >>,
      commitCalled |-> FALSE, commitLimit |-> 0, commitEnable |-> FALSE,
      commitSent |-> << >>,
      dischargeBefore |-> FALSE, stopReached |-> FALSE, startReached |-> FALSE,
      calcCalled |-> FALSE, calcSolar |-> FALSE, calcDischarge |-> FALSE ]

\* no single method call led to the state
NoCall == [ fn |-> "None" ]

NoHistory == [ noOps |-> 0, seriesStart |-> -1, cause |-> "None", gaveUp |-> "None" ]

\* the inverter a call of shutdown() in this tick acts on
ShutdownTarget(r) ==
    IF ~r.shutdownCalled THEN NoInverter
    ELSE IF r.path \in {"ShutdownInProgress", "DisabledByConfig", "DisabledByMqtt",
                        "InverterInvalid", "InverterChanged"}
    THEN inverter
    ELSE getInverterByPos(config.PowerLimiter_InverterId)

\* the time of the first of the consecutive calls of shutdown() on a bound
\* inverter, up to and including this tick
SeriesStart(r) ==
    IF ShutdownTarget(r) # NoInverter
    THEN (IF hist.seriesStart >= 0 THEN hist.seriesStart ELSE now)
    ELSE -1

\* the cause for which the loop calls shutdown() in this tick
Cause(r) ==
    IF ~r.shutdownCalled THEN "None"
    ELSE IF r.path = "Evaluate" \/ r.path = "UnconditionalSolarPassthrough"
    THEN "LimitBelowLowerBound"
    ELSE r.path

\* the cause of the shutdown attempt that is under way after this tick
AttemptCause(r) ==
    IF r.path = "ShutdownInProgress" THEN hist.cause ELSE Cause(r)

\* the cause of a shutdown attempt that timed out while the inverter was
\* reporting production, as long as that cause persists and the inverter
\* keeps reporting production
GaveUp(r, in) ==
    IF ~in.producing THEN "None"
    ELSE IF r.path = "ShutdownInProgress"
    THEN (IF r.inverter = NoInverter THEN hist.cause ELSE "None")
    ELSE IF hist.gaveUp # "None" /\ Cause(r) = hist.gaveUp THEN hist.gaveUp
    ELSE "None"

NoOps(r) ==
    IF r.path # "Evaluate" THEN hist.noOps
    ELSE IF r.setRet THEN 0
    ELSE Min(MaxNoOps, hist.noOps + 1)

\* the state after a call of loop() that ended as r; c is the position of
\* the method call or handler that is under way in another task
Applied(r, in, c) ==
    /\ inverter' = r.inverter
    /\ shutdownTimeout' = r.shutdownTimeout
    /\ lastStatus' = r.lastStatus
    /\ lastCalculation' = r.lastCalculation
    /\ calculationBackoffMs' = r.calculationBackoffMs
    /\ batteryDischargeEnabled' = r.batteryDischargeEnabled
    /\ nextInverterRestart' = r.nextInverterRestart
    /\ nextCalculateCheck' = r.nextCalculateCheck
    /\ fullSolarPassThroughEnabled' = r.fullSolarPassThroughEnabled
    /\ lastRequestedPowerLimit' = r.lastRequestedPowerLimit
    /\ lastPowerLimitMillis' = r.lastPowerLimitMillis
    /\ limitCmd' = r.limitCmd
    /\ powerCmd' = r.powerCmd
    /\ last' = [ path |-> r.path, in |-> in,
                 reachable |-> in.reachable, producing |-> in.producing,
                 timeout |-> shutdownTimeout, target |-> ShutdownTarget(r),
                 sent |-> r.sent, shutdownCalled |-> r.shutdownCalled,
                 shutdownRet |-> r.shutdownRet, setCalled |-> r.setCalled,
                 setRet |-> r.setRet, setRequested |-> r.setRequested,
                 setEffective |-> r.setEffective, setLast |-> r.setLast,
                 setAge |-> r.setAge, setSent |-> r.setSent,
                 commitCalled |-> r.commitCalled, commitLimit |-> r.commitLimit,
                 commitEnable |-> r.commitEnable, commitSent |-> r.commitSent,
                 dischargeBefore |-> r.calcCalled /\ batteryDischargeEnabled,
                 stopReached |-> r.stopReached, startReached |-> r.startReached,
                 calcCalled |-> r.calcCalled, calcSolar |-> r.calcSolar,
                 calcDischarge |-> r.calcDischarge ]
    /\ hist' = [ noOps |-> NoOps(r),
                 seriesStart |-> IF r.inverter = NoInverter THEN -1 ELSE SeriesStart(r),
                 cause |-> AttemptCause(r),
                 gaveUp |-> GaveUp(r, in) ]
    /\ call' = c
    /\ UNCHANGED <<now, timeSynced, config, mode>>
    /\ UNCHANGED shuntVars

Apply(r, in) == Applied(r, in, NoCall)

-----------------------------------------------------------------------------
(* VeDirectShuntController, the frame handler of the SmartShunt.  A frame  *)
(* is a series of text lines (name, value), each handed to textRxEvent()   *)
(* as it arrives, and ends with a checksum; frameEndEvent(valid) tells     *)
(* whether the checksum was right.  Names and values are strings, here     *)
(* sequences of characters.  Of the fields of the frame the model has PID  *)
(* (set by the base class), SOC (like T, P, CE, TTG and H1..H18) and       *)
(* ALARM.                                                                  *)

\* the frames the history tells apart
MaxFrames == 2

\* veShuntStruct after value initialisation
EmptyFrame == [PID |-> 0, SOC |-> 0, ALARM |-> FALSE]

\* history: the checksum results of the frames that ended, and for every
\* field of _tmpFrame and veFrame the number of the frame whose line set it
\* (0: no line did)
NoFrames ==
    [ ended |-> << >>,
      tmpFrom |-> [PID |-> 0, SOC |-> 0, ALARM |-> 0],
      veFrom |-> [PID |-> 0, SOC |-> 0, ALARM |-> 0] ]

\* the names and values of the text lines in this model
ShuntNames == {"PID", "SOC", "ALARM", "SER"}
ShuntValues ==
    { <<"9", "5", "0">>, <<"1", "2">>, <<"O", "N">>, <<"0", "x", "A", "3", "8", "9">> }

DigitValue ==
    [ c \in {"0", "1", "2", "3", "4", "5", "6", "7", "8", "9", "A", "B", "C", "D", "E", "F"} |->
        CASE c = "0" -> 0 [] c = "1" -> 1 [] c = "2" -> 2 [] c = "3" -> 3 [] c = "4" -> 4
          [] c = "5" -> 5 [] c = "6" -> 6 [] c = "7" -> 7 [] c = "8" -> 8 [] c = "9" -> 9
          [] c = "A" -> 10 [] c = "B" -> 11 [] c = "C" -> 12 [] c = "D" -> 13
          [] c = "E" -> 14 [] c = "F" -> 15 ]

\* the number the leading digits of str stand for in the given base,
\* continuing from acc
RECURSIVE ParseDigits(_, _, _)
ParseDigits(str, base, acc) ==
    IF str = << >> THEN acc
    ELSE IF Head(str) \notin DOMAIN DigitValue THEN acc
    ELSE IF DigitValue[Head(str)] >= base THEN acc
    ELSE ParseDigits(Tail(str), base, acc * base + DigitValue[Head(str)])

\* atoi(): an optional sign and the decimal digits that follow
atoi(str) ==
    IF str # << >> /\ Head(str) = "-" THEN -ParseDigits(Tail(str), 10, 0)
    ELSE ParseDigits(str, 10, 0)

\* strtol(value, nullptr, 0) of the base class: hexadecimal after 0x
strtol0(str) ==
    IF Len(str) >= 2 /\ str[1] = "0" /\ str[2] = "x"
    THEN ParseDigits(SubSeq(str, 3, Len(str)), 16, 0)
    ELSE atoi(str)

\* the frame after VeDirectShuntController::textRxEvent(name, value)
TextRx(frame, name, value) ==
    IF name = "PID" THEN [frame EXCEPT !.PID = strtol0(value)]
    ELSE IF name = "SOC" THEN [frame EXCEPT !.SOC = atoi(value)]
    ELSE IF name = "ALARM" THEN [frame EXCEPT !.ALARM = (value = <<"O", "N">>)]
    ELSE frame

\* frameEndEvent(): the frame is taken over
FrameAccepted(valid, frame) == valid /\ frame.PID # 0

\* the number of the frame that is being received
CurrentFrame == Len(frames.ended) + 1

textRxEvent ==
    /\ CurrentFrame <= MaxFrames
    /\ \E name \in ShuntNames, value \in ShuntValues :
          /\ tmpFrame' = TextRx(tmpFrame, name, value)
          /\ frames' = IF name \in DOMAIN frames.tmpFrom
                        THEN [frames EXCEPT !.tmpFrom[name] = CurrentFrame]
                        ELSE frames
    /\ UNCHANGED <<veFrame, lastUpdate>>
    /\ UNCHANGED limiterVars

frameEndEvent ==
    /\ CurrentFrame <= MaxFrames
    /\ \E valid \in BOOLEAN :
          IF FrameAccepted(valid, tmpFrame)
          THEN /\ veFrame' = tmpFrame
               /\ tmpFrame' = EmptyFrame
               /\ lastUpdate' = now
               /\ frames' = [ ended |-> Append(frames.ended, valid),
                              tmpFrom |-> NoFrames.tmpFrom,
                              veFrom |-> frames.tmpFrom ]
          ELSE /\ frames' = [frames EXCEPT !.ended = Append(@, valid)]
               /\ UNCHANGED <<tmpFrame, veFrame, lastUpdate>>
    /\ UNCHANGED limiterVars

-----------------------------------------------------------------------------
(* Steps *)

Boot(cfg) ==
    /\ now = 0
    /\ timeSynced = FALSE
    /\ config = cfg
    /\ mode = "Normal"
    /\ inverter = NoInverter
    /\ shutdownTimeout = 0
    /\ lastStatus = "Initializing"
    /\ lastCalculation = 0
    /\ calculationBackoffMs = CalculationBackoffMsDefault
    /\ batteryDischargeEnabled = FALSE
    /\ nextInverterRestart = 0
    /\ nextCalculateCheck = 5000
    /\ fullSolarPassThroughEnabled = FALSE
    /\ lastRequestedPowerLimit = 0
    /\ lastPowerLimitMillis = 0
    /\ limitCmd = [i \in Inverters |-> "CMD_OK"]
    /\ powerCmd = [i \in Inverters |-> "CMD_OK"]
    /\ last = Idle
    /\ hist = NoHistory
    /\ call = NoCall
    /\ tmpFrame = EmptyFrame
    /\ veFrame = EmptyFrame
    /\ lastUpdate = 0
    /\ frames = NoFrames

Init == Boot(BaseConfig)

\* the paths of loop() that end before getEnableCommands() is asked
StatusPaths == {"ShutdownInProgress", "DisabledByConfig", "DisabledByMqtt",
                "InverterInvalid", "InverterChanged", "InverterOffline"}

\* the paths of loop() that end before the power meter timestamp is read
DevicePaths == {"InverterCommandsDisabled", "InverterLimitPending",
                "InverterPowerCmdPending", "InverterDevInfoPending",
                "PowerMeterDisabled"}

\* one call of PowerLimiterClass::loop().  The inputs are drawn in the order
\* in which loop() reads them, and only those the call reads.
TickBeside(env, c) ==
    LET Step(i) == Applied(loop(Machine, i), i, c)
        Path(i) == loop(Machine, i).path
        Readings(i) ==
            \E d \in env.readings :
                Step([i EXCEPT !.stats = d.stats, !.solar = d.solar,
                               !.battery = d.battery, !.meterPower = d.meterPower,
                               !.autoPower = d.autoPower])
        Solar(i) ==
            \E d \in env.solar : Step([i EXCEPT !.stats = d.stats, !.solar = d.solar])
        AtTimes(i) == IF Path(i) # "Evaluate" THEN Step(i) ELSE Readings(i)
        Times(i) ==
            \E t \in env.times :
                AtTimes([i EXCEPT !.lastUpdateCommand = t.lastUpdateCommand,
                                  !.statsLastUpdate = t.statsLastUpdate,
                                  !.powerMeterLastUpdate = t.powerMeterLastUpdate])
        AtDevice(i, path) ==
            IF path \in DevicePaths THEN Step(i)
            ELSE IF path = "UnconditionalSolarPassthrough" THEN Solar(i)
            ELSE Times(i)
        Device(i) ==
            \E b \in env.device :
                AtDevice([i EXCEPT !.enableCommands = b.enableCommands,
                                   !.maxPower = b.maxPower],
                         Path([i EXCEPT !.enableCommands = b.enableCommands,
                                        !.maxPower = b.maxPower]))
        AtStatus(i) == IF Path(i) \in StatusPaths THEN Step(i) ELSE Device(i)
        Status(i) ==
            \E a \in env.status :
                AtStatus([i EXCEPT !.reachable = a.reachable, !.producing = a.producing])
    IN  IF Path(DefaultInput) = "WaitingForValidTimestamp"
        THEN Step(DefaultInput)
        ELSE Status(DefaultInput)

\* a call of loop() with no other task inside a method of the limiter
Tick(env) == TickBeside(env, NoCall)

Environment ==
    [ status |-> StatusInputs, device |-> DeviceInputs, times |-> TimeInputs,
      solar |-> SolarInputs, readings |-> ReadingInputs ]

Loop == Tick(Environment)

\* time passes between two calls of loop()
Advance(instants) ==
    /\ \E t \in instants : t > now /\ now' = t
    /\ last' = Idle
    /\ UNCHANGED shuntVars
    /\ call' = NoCall
    /\ UNCHANGED <<timeSynced, config, mode, inverter, shutdownTimeout, lastStatus,
          lastCalculation, calculationBackoffMs, batteryDischargeEnabled,
          nextInverterRestart, nextCalculateCheck, fullSolarPassThroughEnabled,
          lastRequestedPowerLimit, lastPowerLimitMillis, limitCmd, powerCmd, hist>>

\* the system time becomes valid
TimeSync ==
    /\ ~timeSynced
    /\ timeSynced' = TRUE
    /\ last' = Idle
    /\ UNCHANGED shuntVars
    /\ call' = NoCall
    /\ UNCHANGED <<now, config, mode, inverter, shutdownTimeout, lastStatus,
          lastCalculation, calculationBackoffMs, batteryDischargeEnabled,
          nextInverterRestart, nextCalculateCheck, fullSolarPassThroughEnabled,
          lastRequestedPowerLimit, lastPowerLimitMillis, limitCmd, powerCmd, hist>>

\* the inverter answers a limit command, or the command times out
LimitCommandDone ==
    /\ \E i \in Inverters :
          /\ limitCmd[i] = "CMD_PENDING"
          /\ limitCmd' = [limitCmd EXCEPT ![i] = "CMD_OK"]
    /\ last' = Idle
    /\ UNCHANGED shuntVars
    /\ call' = NoCall
    /\ UNCHANGED <<now, timeSynced, config, mode, inverter, shutdownTimeout, lastStatus,
          lastCalculation, calculationBackoffMs, batteryDischargeEnabled,
          nextInverterRestart, nextCalculateCheck, fullSolarPassThroughEnabled,
          lastRequestedPowerLimit, lastPowerLimitMillis, powerCmd, hist>>

\* the inverter answers a start, stop or restart command, or the command times out
PowerCommandDone ==
    /\ \E i \in Inverters :
          /\ powerCmd[i] = "CMD_PENDING"
          /\ powerCmd' = [powerCmd EXCEPT ![i] = "CMD_OK"]
    /\ last' = Idle
    /\ UNCHANGED shuntVars
    /\ call' = NoCall
    /\ UNCHANGED <<now, timeSynced, config, mode, inverter, shutdownTimeout, lastStatus,
          lastCalculation, calculationBackoffMs, batteryDischargeEnabled,
          nextInverterRestart, nextCalculateCheck, fullSolarPassThroughEnabled,
          lastRequestedPowerLimit, lastPowerLimitMillis, limitCmd, hist>>

\* PowerLimiterClass::setMode(), called for the MQTT mode command
setMode ==
    /\ \E md \in AdminModes : mode # md /\ mode' = md
    /\ last' = Idle
    /\ UNCHANGED shuntVars
    /\ call' = NoCall
    /\ hist' = [hist EXCEPT !.cause = "None", !.gaveUp = "None"]
    /\ UNCHANGED <<now, timeSynced, config, inverter, shutdownTimeout, lastStatus,
          lastCalculation, calculationBackoffMs, batteryDischargeEnabled,
          nextInverterRestart, nextCalculateCheck, fullSolarPassThroughEnabled,
          lastRequestedPowerLimit, lastPowerLimitMillis, limitCmd, powerCmd>>

\* variant of AdminPost: the handler leaves the mode alone
AdminPostKeepsMode(configs) ==
    /\ \E c \in configs :
          /\ config' = [c EXCEPT !.PowerMeter_Enabled = config.PowerMeter_Enabled]
          /\ nextInverterRestart' = NextInverterRestart(c.PowerLimiter_RestartHour)
    /\ last' = Idle
    /\ UNCHANGED shuntVars
    /\ call' = NoCall
    /\ hist' = [hist EXCEPT !.cause = "None", !.gaveUp = "None"]
    /\ UNCHANGED <<now, timeSynced, mode, inverter, shutdownTimeout, lastStatus,
          lastCalculation, calculationBackoffMs, batteryDischargeEnabled,
          nextCalculateCheck, fullSolarPassThroughEnabled,
          lastRequestedPowerLimit, lastPowerLimitMillis, limitCmd, powerCmd>>

\* WebApiPowerLimiterClass::onAdminPost() with accepted values: the
\* configuration is written, then calcNextInverterRestart() is called
AdminPost(configs) ==
    /\ \E c \in configs :
          /\ config' = [c EXCEPT !.PowerMeter_Enabled = config.PowerMeter_Enabled]
          /\ nextInverterRestart' = NextInverterRestart(c.PowerLimiter_RestartHour)
    /\ mode' = "Normal"
    /\ last' = Idle
    /\ UNCHANGED shuntVars
    /\ call' = NoCall
    /\ hist' = [hist EXCEPT !.cause = "None", !.gaveUp = "None"]
    /\ UNCHANGED <<now, timeSynced, inverter, shutdownTimeout, lastStatus,
          lastCalculation, calculationBackoffMs, batteryDischargeEnabled,
          nextCalculateCheck, fullSolarPassThroughEnabled,
          lastRequestedPowerLimit, lastPowerLimitMillis, limitCmd, powerCmd>>

onAdminPost == AdminPost(PowerLimiterConfigs)

AdvanceClock == Advance(Instants)

\* the limiter under a fixed configuration in mode Normal
Next ==
    \/ Loop
    \/ AdvanceClock
    \/ TimeSync
    \/ LimitCommandDone
    \/ PowerCommandDone

Spec == Init /\ [][Next]_vars

\* the environment of the specification with configuration changes: the
\* inverter accepts commands, the readings are fresh, the battery is low and
\* the solar charger delivers power
AdminEnvironment ==
    [ status |-> StatusInputs,
      device |-> {d \in DeviceInputs : d.enableCommands /\ d.maxPower > 0},
      times |-> {t \in TimeInputs : t.lastUpdateCommand = 0 /\ t.statsLastUpdate = now
                                      /\ t.powerMeterLastUpdate = now},
      solar |-> {d \in SolarInputs : d.solar.valid},
      readings |-> {d \in ReadingInputs : d.solar.valid /\ d.battery.soc = 15
                                            /\ d.meterPower = 604} ]

LoopAdmin == Tick(AdminEnvironment)

AdvanceClockAdmin == Advance(AdminInstants)

\* the limiter with configuration and mode changes between the calls of loop()
NextAdmin ==
    \/ LoopAdmin
    \/ AdvanceClockAdmin
    \/ TimeSync
    \/ LimitCommandDone
    \/ PowerCommandDone
    \/ setMode
    \/ onAdminPost

InitAdmin == Boot(AdminConfig)

SpecAdmin == InitAdmin /\ [][NextAdmin]_vars

-----------------------------------------------------------------------------
(* Single calls of the methods that read the thresholds and calculate the  *)
(* limit, under several configurations.  call describes the call that led  *)
(* to the state: the method, what the collaborators reported, the          *)
(* arguments, the result and the latch before the call.                    *)

\* the configurations of the specification of single calls
CallConfigs ==
    { AdminConfig,
      [AdminConfig EXCEPT !.PowerLimiter_SolarPassThroughEnabled = FALSE],
      [AdminConfig EXCEPT !.Vedirect_Enabled = FALSE],
      [AdminConfig EXCEPT !.Battery_Enabled = FALSE],
      [AdminConfig EXCEPT !.PowerLimiter_IsInverterBehindPowerMeter = FALSE,
                          !.PowerLimiter_TargetPowerConsumption = 100],
      [AdminConfig EXCEPT !.PowerLimiter_BatterySocStartThreshold = 0,
                          !.PowerLimiter_BatterySocStopThreshold = 0,
                          !.PowerLimiter_FullSolarPassThroughSoc = 0],
      [AdminConfig EXCEPT !.Battery_Enabled = FALSE,
                          !.PowerLimiter_VoltageStartThreshold = 0,
                          !.PowerLimiter_VoltageStopThreshold = 0,
                          !.PowerLimiter_FullSolarPassThroughStartVoltage = 0,
                          !.PowerLimiter_FullSolarPassThroughStopVoltage = 0],
      \* the stop voltage of full solar passthrough above its start voltage
      [AdminConfig EXCEPT !.Battery_Enabled = FALSE,
                          !.PowerLimiter_FullSolarPassThroughStartVoltage = 26500,
                          !.PowerLimiter_FullSolarPassThroughStopVoltage = 27000] }

\* battery readings around the thresholds: invalid, stale, below and at the
\* stop threshold, between the thresholds, at the full solar passthrough SoC
CallBatteryReadings ==
    { [valid |-> FALSE, socAge |-> 0,  soc |-> 50],
      [valid |-> TRUE,  socAge |-> 60, soc |-> 96],
      [valid |-> TRUE,  socAge |-> 0,  soc |-> 19],
      [valid |-> TRUE,  socAge |-> 0,  soc |-> 20],
      [valid |-> TRUE,  socAge |-> 59, soc |-> 50],
      [valid |-> TRUE,  socAge |-> 0,  soc |-> 95] }

\* statistics with DC voltages around the voltage thresholds
CallStatsReadings ==
    [ pac : {0, 1005}, udc : {0, 24000, 26000, 26800, 27000}, eff : {0},
      dcTotal : {2}, dcProd : {0} ]

\* solar charger readings around the minimal solar power
CallSolarReadings ==
    { [valid |-> FALSE, V |-> 26000, I |-> 12308, PPV |-> 320],
      [valid |-> TRUE,  V |-> 26000, I |-> 730,   PPV |-> 19],
      [valid |-> TRUE,  V |-> 26000, I |-> 770,   PPV |-> 20],
      [valid |-> TRUE,  V |-> 26000, I |-> 12308, PPV |-> 320] }

\* the readings of calcPowerLimit
CalcBatteryReadings == {b \in CallBatteryReadings : b.socAge = 0 /\ b.soc # 19}
CalcStatsReadings ==
    [ pac : {0, 1005}, udc : {24000, 27000}, eff : {0, 950}, dcTotal : {2}, dcProd : {0} ]
CalcSolarReadings ==
    { [valid |-> FALSE, V |-> 0,     I |-> 0,     PPV |-> 0],
      [valid |-> TRUE,  V |-> 26000, I |-> 12308, PPV |-> 320],
      [valid |-> TRUE,  V |-> 26000, I |-> 16424, PPV |-> 427] }
CalcMeterPowers == {-504, 1004, 5000}

\* the arguments of testThreshold
SocThresholds == {0, 20}
VoltThresholds == {0, 24000}
CompareOps == {"ge", "le", "lt"}

\* the history holds one call: the next one is looked at after a call of loop()
Callable == call = NoCall

\* the state after a method call that changes nothing but the latch
Called(record, latch) ==
    /\ call' = record
    /\ fullSolarPassThroughEnabled' = latch
    /\ last' = Idle
    /\ UNCHANGED shuntVars
    /\ UNCHANGED <<now, timeSynced, config, mode, inverter, shutdownTimeout, lastStatus,
          lastCalculation, calculationBackoffMs, batteryDischargeEnabled,
          nextInverterRestart, nextCalculateCheck,
          lastRequestedPowerLimit, lastPowerLimitMillis, limitCmd, powerCmd, hist>>

callTestThreshold ==
    /\ Callable
    /\ \E b \in CallBatteryReadings, st \in CallStatsReadings,
       socThreshold \in SocThresholds, voltThreshold \in VoltThresholds,
       op \in CompareOps :
        LET TestThreshold(in) ==
                Called([fn |-> "testThreshold", in |-> in,
                        socThreshold |-> socThreshold, voltThreshold |-> voltThreshold,
                        op |-> op,
                        ret |-> testThreshold(Machine, in, socThreshold, voltThreshold, op)],
                       fullSolarPassThroughEnabled)
        IN  TestThreshold([DefaultInput EXCEPT !.battery = b, !.stats = st])

callCanUseDirectSolarPower ==
    /\ Callable
    /\ \E b \in CallBatteryReadings, st \in CallStatsReadings, sol \in CallSolarReadings :
        LET CanUseDirectSolarPower(in) ==
                Called([fn |-> "canUseDirectSolarPower", in |-> in,
                        ret |-> canUseDirectSolarPower(Machine, in)],
                       fullSolarPassThroughEnabled)
        IN  CanUseDirectSolarPower([DefaultInput EXCEPT !.battery = b, !.stats = st, !.solar = sol])

callUseFullSolarPassthrough ==
    /\ Callable
    /\ \E b \in CallBatteryReadings, st \in CallStatsReadings :
        LET Done(in, r) ==
                Called([fn |-> "useFullSolarPassthrough", in |-> in,
                        before |-> fullSolarPassThroughEnabled, ret |-> r.ret],
                       r.fullSolarPassThroughEnabled)
            UseFullSolarPassthrough(in) == Done(in, useFullSolarPassthrough(Machine, in))
        IN  UseFullSolarPassthrough([DefaultInput EXCEPT !.battery = b, !.stats = st])

\* calcPowerLimit as loop() calls it: with the result of
\* canUseDirectSolarPower() and with the battery discharge flag
callCalcPowerLimit ==
    /\ Callable
    /\ \E b \in CalcBatteryReadings, st \in CalcStatsReadings, sol \in CalcSolarReadings,
       meterPower \in CalcMeterPowers, autoPower \in BOOLEAN, discharge \in BOOLEAN :
        LET Done(in, solarPowerEnabled, r) ==
                Called([fn |-> "calcPowerLimit", in |-> in,
                        solarPowerEnabled |-> solarPowerEnabled,
                        batteryDischargeEnabled |-> discharge,
                        before |-> fullSolarPassThroughEnabled,
                        fullSolarPassthrough |-> discharge /\ r.m.ret,
                        ret |-> r.lim],
                       r.m.fullSolarPassThroughEnabled)
            With(in, solarPowerEnabled) ==
                Done(in, solarPowerEnabled,
                     calcPowerLimit(Machine, in, solarPowerEnabled, discharge))
            CalcPowerLimit(in) == With(in, canUseDirectSolarPower(Machine, in))
        IN  CalcPowerLimit([DefaultInput EXCEPT !.battery = b, !.stats = st, !.solar = sol,
                                    !.meterPower = meterPower, !.autoPower = autoPower])

\* the environment of the calls of loop() in the specification of single
\* calls: the inverter is offline, loop() binds it and returns
CallEnvironment ==
    [ status |-> {a \in StatusInputs : ~a.reachable /\ ~a.producing},
      device |-> DeviceInputs, times |-> TimeInputs,
      solar |-> SolarInputs, readings |-> ReadingInputs ]

LoopCalls == Tick(CallEnvironment)

NextCalls ==
    \/ LoopCalls
    \/ TimeSync
    \/ callTestThreshold
    \/ callCanUseDirectSolarPower
    \/ callUseFullSolarPassthrough
    \/ callCalcPowerLimit

InitCalls == \E c \in CallConfigs : Boot(c)

SpecCalls == InitCalls /\ [][NextCalls]_vars

-----------------------------------------------------------------------------
(* The limiter under the configurations of the battery charging cycle:     *)
(* solar passthrough on and off, both drain strategies, the SoC start      *)
(* threshold above and below the stop threshold.                           *)

PolicyConfigs ==
    { [AdminConfig EXCEPT !.PowerLimiter_SolarPassThroughEnabled = pt,
                          !.PowerLimiter_BatteryDrainStategy = strategy,
                          !.PowerLimiter_BatterySocStartThreshold = start] :
        pt \in BOOLEAN, strategy \in {EMPTY_WHEN_FULL, EMPTY_AT_NIGHT},
        start \in {80, 10} }

\* battery readings below and at the stop threshold, between the thresholds
\* and above the start threshold
PolicyBatteryReadings ==
    BatteryReadings \cup { [valid |-> TRUE, socAge |-> 0, soc |-> 20],
                           [valid |-> TRUE, socAge |-> 0, soc |-> 50] }

PolicyEnvironment ==
    [ status |-> StatusInputs,
      device |-> DeviceInputs,
      times |-> TimeInputs,
      solar |-> SolarInputs,
      readings |-> [ stats : StatsReadings, solar : SolarReadings,
                     battery : PolicyBatteryReadings, meterPower : {604},
                     autoPower : {FALSE} ] ]

LoopPolicy == Tick(PolicyEnvironment)

NextPolicy ==
    \/ LoopPolicy
    \/ AdvanceClockAdmin
    \/ TimeSync
    \/ LimitCommandDone
    \/ PowerCommandDone

InitPolicy == \E c \in PolicyConfigs : Boot(c)

SpecPolicy == InitPolicy /\ [][NextPolicy]_vars

-----------------------------------------------------------------------------
(* The limiter with and without a power meter, in the modes the MQTT       *)
(* command sets, with timestamps around the settling window and the power  *)
(* meter timeout.                                                          *)

MeterConfigs ==
    { AdminConfig,
      [AdminConfig EXCEPT !.PowerMeter_Enabled = FALSE],
      [AdminConfig EXCEPT !.Vedirect_Enabled = FALSE] }

\* statistics of an inverter at rest and of a producing one whose DC voltage
\* is below the stop threshold
MeterStatsReadings ==
    StatsReadings \cup
    { [pac |-> 1005, udc |-> 23000, eff |-> 950, dcTotal |-> 2, dcProd |-> 2] }

\* solar charger readings: no data, 312 W and 26 W
MeterSolarReadings ==
    SolarReadings \cup { [valid |-> TRUE, V |-> 26000, I |-> 1000, PPV |-> 26] }

\* the instants of the specification of modes and timestamps
MeterInstants == {0, 10000, 40000}

\* the times of the last command answer
MeterCommandTimes == {0, 7000}

\* the times of the last statistics and of the last power meter reading
MeterUpdateTimes == {0, 10000, now}

\* the inverter is reachable with known max power and accepts commands
MeterEnvironment ==
    [ status |-> {a \in StatusInputs : a.reachable},
      device |-> {d \in DeviceInputs : d.enableCommands /\ d.maxPower > 0},
      times |-> {t \in [ lastUpdateCommand : MeterCommandTimes,
                         statsLastUpdate : MeterUpdateTimes,
                         powerMeterLastUpdate : MeterUpdateTimes ] :
                    /\ t.lastUpdateCommand <= now
                    /\ t.statsLastUpdate <= now
                    /\ t.powerMeterLastUpdate <= now},
      solar |-> [ stats : MeterStatsReadings, solar : MeterSolarReadings ],
      readings |-> {d \in ReadingInputs : d.meterPower = 604} ]

LoopMeter == Tick(MeterEnvironment)

AdvanceClockMeter == Advance(MeterInstants)

\* MqttHandlePowerLimiterClass::onCmdMode(): the MQTT mode command
onCmdMode ==
    /\ \E md \in Modes : mode # md /\ mode' = md
    /\ last' = Idle
    /\ UNCHANGED shuntVars
    /\ call' = NoCall
    /\ hist' = [hist EXCEPT !.cause = "None", !.gaveUp = "None"]
    /\ UNCHANGED <<now, timeSynced, config, inverter, shutdownTimeout, lastStatus,
          lastCalculation, calculationBackoffMs, batteryDischargeEnabled,
          nextInverterRestart, nextCalculateCheck, fullSolarPassThroughEnabled,
          lastRequestedPowerLimit, lastPowerLimitMillis, limitCmd, powerCmd>>

NextMeter ==
    \/ LoopMeter
    \/ AdvanceClockMeter
    \/ TimeSync
    \/ LimitCommandDone
    \/ PowerCommandDone
    \/ onCmdMode

InitMeter == \E c \in MeterConfigs : Boot(c)

SpecMeter == InitMeter /\ [][NextMeter]_vars

-----------------------------------------------------------------------------
(* The restart schedule under several restart hours, at several times of   *)
(* the day, with the restart hour changed through the web API.             *)

\* restart hours: midnight, early, noon, the last hour, one beyond the day
RestartHours == {0, 1, 2, 12, 23, 25}

RestartConfigs ==
    { [AdminConfig EXCEPT !.PowerLimiter_RestartHour = h] : h \in RestartHours \cup {-1} }

\* minutes since boot (at 23:59) at which the model looks at the system
RestartMinutes == {0, 1, 31, 60, 61, 121, 661, 721, 1381, 1440, 1441}

RestartInstants == { 60000 * k : k \in RestartMinutes }

\* the inverter is reachable, idle and accepts commands, the readings are
\* fresh, the battery is charged
RestartEnvironment ==
    [ status |-> {a \in StatusInputs : a.reachable /\ ~a.producing},
      device |-> {d \in DeviceInputs : d.enableCommands /\ d.maxPower > 0},
      times |-> {t \in TimeInputs : t.lastUpdateCommand = 0 /\ t.statsLastUpdate = now
                                      /\ t.powerMeterLastUpdate = now},
      solar |-> SolarInputs,
      readings |-> {d \in ReadingInputs : ~d.solar.valid /\ d.battery.soc = 90
                                            /\ d.meterPower = 604} ]

LoopRestart == Tick(RestartEnvironment)

AdvanceClockRestart == Advance(RestartInstants)

onAdminPostRestart == AdminPost(RestartConfigs)

\* a call of calcNextInverterRestart()
callCalcNextInverterRestart ==
    /\ Callable
    /\ call' = [ fn |-> "calcNextInverterRestart",
                 restartHour |-> config.PowerLimiter_RestartHour,
                 synced |-> timeSynced, hour |-> Hour(now), minute |-> Minute(now),
                 ret |-> calcNextInverterRestart(Machine).nextInverterRestart ]
    /\ nextInverterRestart' = calcNextInverterRestart(Machine).nextInverterRestart
    /\ last' = Idle
    /\ UNCHANGED shuntVars
    /\ UNCHANGED <<now, timeSynced, config, mode, inverter, shutdownTimeout, lastStatus,
          lastCalculation, calculationBackoffMs, batteryDischargeEnabled,
          nextCalculateCheck, fullSolarPassThroughEnabled,
          lastRequestedPowerLimit, lastPowerLimitMillis, limitCmd, powerCmd, hist>>

NextRestart ==
    \/ LoopRestart
    \/ AdvanceClockRestart
    \/ TimeSync
    \/ LimitCommandDone
    \/ PowerCommandDone
    \/ onAdminPostRestart
    \/ callCalcNextInverterRestart

InitRestart == \E c \in RestartConfigs : Boot(c)

SpecRestart == InitRestart /\ [][NextRestart]_vars

-----------------------------------------------------------------------------
(* The web handler in its own task beside loop(): onAdminPost() writes the *)
(* configuration and then runs calcNextInverterRestart(), which builds the *)
(* schedule in _nextInverterRestart itself: minutes, then milliseconds,    *)
(* then the uptime added.  No lock is taken, so a call of loop() can fall  *)
(* between any two of these writes.  call holds the handler's position.    *)

RaceHours == {-1, 12}

RaceConfigs == { [AdminConfig EXCEPT !.PowerLimiter_RestartHour = h] : h \in RaceHours }

RaceInstants == {0, 10000}

LoopRace == TickBeside(RestartEnvironment, call)

AdvanceClockRace ==
    /\ \E t \in RaceInstants : t > now /\ now' = t
    /\ last' = Idle
    /\ UNCHANGED shuntVars
    /\ UNCHANGED <<timeSynced, config, mode, inverter, shutdownTimeout, lastStatus,
          lastCalculation, calculationBackoffMs, batteryDischargeEnabled,
          nextInverterRestart, nextCalculateCheck, fullSolarPassThroughEnabled,
          lastRequestedPowerLimit, lastPowerLimitMillis, limitCmd, powerCmd, hist, call>>

PowerCommandDoneRace ==
    /\ \E i \in Inverters :
          /\ powerCmd[i] = "CMD_PENDING"
          /\ powerCmd' = [powerCmd EXCEPT ![i] = "CMD_OK"]
    /\ last' = Idle
    /\ UNCHANGED shuntVars
    /\ UNCHANGED <<now, timeSynced, config, mode, inverter, shutdownTimeout, lastStatus,
          lastCalculation, calculationBackoffMs, batteryDischargeEnabled,
          nextInverterRestart, nextCalculateCheck, fullSolarPassThroughEnabled,
          lastRequestedPowerLimit, lastPowerLimitMillis, limitCmd, hist, call>>

LimitCommandDoneRace ==
    /\ \E i \in Inverters :
          /\ limitCmd[i] = "CMD_PENDING"
          /\ limitCmd' = [limitCmd EXCEPT ![i] = "CMD_OK"]
    /\ last' = Idle
    /\ UNCHANGED shuntVars
    /\ UNCHANGED <<now, timeSynced, config, mode, inverter, shutdownTimeout, lastStatus,
          lastCalculation, calculationBackoffMs, batteryDischargeEnabled,
          nextInverterRestart, nextCalculateCheck, fullSolarPassThroughEnabled,
          lastRequestedPowerLimit, lastPowerLimitMillis, powerCmd, hist, call>>

\* onAdminPost() up to Configuration.write(): the configuration is written,
\* setMode(Normal) is called
AdminPostWrite ==
    /\ call = NoCall
    /\ timeSynced
    /\ \E c \in RaceConfigs : config' = c
    /\ mode' = "Normal"
    /\ call' = [fn |-> "onAdminPost", pc |-> "calc"]
    /\ last' = Idle
    /\ UNCHANGED shuntVars
    /\ UNCHANGED <<now, timeSynced, inverter, shutdownTimeout, lastStatus,
          lastCalculation, calculationBackoffMs, batteryDischargeEnabled,
          nextInverterRestart, nextCalculateCheck, fullSolarPassThroughEnabled,
          lastRequestedPowerLimit, lastPowerLimitMillis, limitCmd, powerCmd, hist>>

\* calcNextInverterRestart() called by the handler, up to its first write
\* of _nextInverterRestart.  The build may keep the value in a register and
\* write the schedule once, or write every intermediate value.
AdminPostCalc ==
    /\ call.fn = "onAdminPost" /\ call.pc = "calc"
    /\ \/ /\ config.PowerLimiter_RestartHour >= 0
          /\ nextInverterRestart' =
                 MinutesUntilRestart(config.PowerLimiter_RestartHour, Hour(now), Minute(now))
          /\ call' = [fn |-> "onAdminPost", pc |-> "scale"]
       \/ /\ nextInverterRestart' = NextInverterRestart(config.PowerLimiter_RestartHour)
          /\ call' = NoCall
    /\ last' = Idle
    /\ UNCHANGED shuntVars
    /\ UNCHANGED <<now, timeSynced, config, mode, inverter, shutdownTimeout, lastStatus,
          lastCalculation, calculationBackoffMs, batteryDischargeEnabled,
          nextCalculateCheck, fullSolarPassThroughEnabled,
          lastRequestedPowerLimit, lastPowerLimitMillis, limitCmd, powerCmd, hist>>

\* _nextInverterRestart *= 60000
AdminPostScale ==
    /\ call.fn = "onAdminPost" /\ call.pc = "scale"
    /\ nextInverterRestart' = Int32(Mul32(U32(nextInverterRestart), 60000))
    /\ call' = [fn |-> "onAdminPost", pc |-> "add"]
    /\ last' = Idle
    /\ UNCHANGED shuntVars
    /\ UNCHANGED <<now, timeSynced, config, mode, inverter, shutdownTimeout, lastStatus,
          lastCalculation, calculationBackoffMs, batteryDischargeEnabled,
          nextCalculateCheck, fullSolarPassThroughEnabled,
          lastRequestedPowerLimit, lastPowerLimitMillis, limitCmd, powerCmd, hist>>

\* _nextInverterRestart += millis()
AdminPostAdd ==
    /\ call.fn = "onAdminPost" /\ call.pc = "add"
    /\ nextInverterRestart' = Int32(Add32(U32(nextInverterRestart), U32(now)))
    /\ call' = NoCall
    /\ last' = Idle
    /\ UNCHANGED shuntVars
    /\ UNCHANGED <<now, timeSynced, config, mode, inverter, shutdownTimeout, lastStatus,
          lastCalculation, calculationBackoffMs, batteryDischargeEnabled,
          nextCalculateCheck, fullSolarPassThroughEnabled,
          lastRequestedPowerLimit, lastPowerLimitMillis, limitCmd, powerCmd, hist>>

NextRace ==
    \/ LoopRace
    \/ AdvanceClockRace
    \/ TimeSync
    \/ LimitCommandDoneRace
    \/ PowerCommandDoneRace
    \/ AdminPostWrite
    \/ AdminPostCalc
    \/ AdminPostScale
    \/ AdminPostAdd

InitRace == \E c \in RaceConfigs : Boot(c)

SpecRace == InitRace /\ [][NextRace]_vars

-----------------------------------------------------------------------------
(* The limit that is set, for inverters with none, some or all of their DC *)
(* channels producing and with a maximum power below and above the limit.  *)

\* Statistics(): DC channels in total and producing
ChannelStatsReadings ==
    { [pac |-> 0, udc |-> 25000, eff |-> 0, dcTotal |-> c[1], dcProd |-> c[2]] :
        c \in {<<0, 0>>, <<2, 0>>, <<2, 1>>, <<2, 2>>, <<3, 2>>, <<4, 1>>} }

\* PowerMeter.getPowerTotal() in 0.1 W
ChannelMeterPowers == {604, 610, 3000, 9000}

\* DevInfo()->getMaxPower()
ChannelMaxPowers == {300, 600, 2000}

ChannelInstants == {0, 10000}

ChannelEnvironment ==
    [ status |-> {a \in StatusInputs : a.reachable},
      device |-> [ enableCommands : {TRUE}, maxPower : ChannelMaxPowers ],
      times |-> {t \in TimeInputs : t.lastUpdateCommand = 0 /\ t.statsLastUpdate = now
                                      /\ t.powerMeterLastUpdate = now},
      solar |-> SolarInputs,
      readings |-> [ stats : ChannelStatsReadings,
                     solar : {d \in SolarReadings : ~d.valid},
                     battery : {d \in BatteryReadings : d.soc = 90},
                     meterPower : ChannelMeterPowers, autoPower : {FALSE} ] ]

LoopChannels == Tick(ChannelEnvironment)

AdvanceClockChannels == Advance(ChannelInstants)

NextChannels ==
    \/ LoopChannels
    \/ AdvanceClockChannels
    \/ TimeSync
    \/ LimitCommandDone
    \/ PowerCommandDone

InitChannels == Boot(AdminConfig)

SpecChannels == InitChannels /\ [][NextChannels]_vars

-----------------------------------------------------------------------------
(* Inverters that accept no commands, with configuration and mode changes. *)
(* What the inverter would report is known in every call of loop(), also   *)
(* in the calls that do not ask for it.                                    *)

\* the inverter's status and getEnableCommands() during one call of loop();
\* the readings are fresh, the battery is charged
CommandsInputs ==
    { [DefaultInput EXCEPT !.reachable = a.reachable, !.producing = a.producing,
                           !.enableCommands = e,
                           !.battery = [valid |-> TRUE, socAge |-> 0, soc |-> 90]] :
        a \in StatusInputs, e \in BOOLEAN }

LoopCommands == \E i \in CommandsInputs : Apply(loop(Machine, i), i)

CommandsInstants == {0, 20000}

AdvanceClockCommands == Advance(CommandsInstants)

NextCommands ==
    \/ LoopCommands
    \/ AdvanceClockCommands
    \/ TimeSync
    \/ LimitCommandDone
    \/ PowerCommandDone
    \/ setMode
    \/ onAdminPost

InitCommands == Boot(AdminConfig)

SpecCommands == InitCommands /\ [][NextCommands]_vars

-----------------------------------------------------------------------------
(* Continued ticking after the configured inverter changed.  loop() is     *)
(* called again and again by the main task, the clock advances and the     *)
(* system time becomes valid; the inverters report whatever they like.     *)

LiveInstants == {0, 20000}

\* a timer that ends at or after the last instant of the model never expires
\* in the model
LastInstant == 20000

LiveEnvironment ==
    [ status |-> StatusInputs,
      device |-> {d \in DeviceInputs : d.enableCommands /\ d.maxPower > 0},
      times |-> {t \in TimeInputs : t.lastUpdateCommand = 0 /\ t.statsLastUpdate = now
                                      /\ t.powerMeterLastUpdate = now},
      solar |-> SolarInputs,
      readings |-> {d \in ReadingInputs : ~d.solar.valid /\ d.battery.soc = 90
                                            /\ d.meterPower = 604} ]

\* consecutive calls of loop() are told apart in call
LoopLive ==
    TickBeside(LiveEnvironment,
               [fn |-> "loop", odd |-> IF call.fn = "loop" THEN ~call.odd ELSE TRUE])

AdvanceClockLive == Advance(LiveInstants)

\* the web handler changes the inverter from 1 to 2
onAdminPostLive ==
    /\ config.PowerLimiter_InverterId = 1
    /\ AdminPost({[AdminConfig EXCEPT !.PowerLimiter_InverterId = 2]})

NextLive ==
    \/ LoopLive
    \/ AdvanceClockLive
    \/ TimeSync
    \/ LimitCommandDone
    \/ PowerCommandDone
    \/ onAdminPostLive

InitLive == Boot(AdminConfig)

\* loop() is called infinitely often (it can be called in every state, so
\* this is weak fairness of LoopLive), the clock advances and the time gets
\* valid
SpecLive ==
    /\ InitLive /\ [][NextLive]_vars
    /\ []<><<LoopLive>>_vars /\ WF_vars(AdvanceClockLive) /\ WF_vars(TimeSync)

-----------------------------------------------------------------------------
(* The restart schedule on the 32-bit clock.  millis() and the schedule are *)
(* uint32_t; here both are pairs of 16-bit halves, so that uptimes up to    *)
(* 2^32 - 1 ms and the wrap of the sum are in the model.  The uptime, the   *)
(* local time and the schedule of the call are held in call.               *)

\* millis(): early after boot, in the middle of the range, a day before the
\* wrap, a minute and a second before it, and the last millisecond
WrapUptimes ==
    { U32(0), U32(10000), [hi |-> 32768, lo |-> 0],
      [hi |-> 64217, lo |-> 41984], [hi |-> 64217, lo |-> 41985],
      [hi |-> 65535, lo |-> 5536], [hi |-> 65535, lo |-> 64536],
      [hi |-> 65535, lo |-> 65535] }

\* tm_hour, tm_min
WrapTimesOfDay == { <<0, 0>>, <<11, 59>>, <<12, 0>>, <<23, 59>> }

WrapHours == {0, 12, 23}

\* calcNextInverterRestart() on uint32_t for a restart hour >= 0 and valid time
NextInverterRestart32(restartHour, hour, minute, uptime) ==
    Add32(Mul32(U32(MinutesUntilRestart(restartHour, hour, minute)), 60000), uptime)

\* loop(): the next inverter restart time is reached, on uint32_t
RestartDue32(schedule, uptime) == Gt32(schedule, U32(1)) /\ Leq32(schedule, uptime)

\* the clock and the local time are read
readClock ==
    /\ call = NoCall
    /\ \E u \in WrapUptimes, t \in WrapTimesOfDay :
          call' = [fn |-> "millis", uptime |-> u, hour |-> t[1], minute |-> t[2]]
    /\ last' = Idle
    /\ UNCHANGED shuntVars
    /\ UNCHANGED <<now, timeSynced, config, mode, inverter, shutdownTimeout, lastStatus,
          lastCalculation, calculationBackoffMs, batteryDischargeEnabled,
          nextInverterRestart, nextCalculateCheck, fullSolarPassThroughEnabled,
          lastRequestedPowerLimit, lastPowerLimitMillis, limitCmd, powerCmd, hist>>

\* calcNextInverterRestart() at that uptime and local time, and the test
\* loop() makes of the schedule at the same uptime
callCalcNextInverterRestart32 ==
    /\ call.fn = "millis"
    /\ LET schedule == NextInverterRestart32(config.PowerLimiter_RestartHour,
                                             call.hour, call.minute, call.uptime)
       IN  call' = [fn |-> "calcNextInverterRestart32", uptime |-> call.uptime,
                    hour |-> call.hour, minute |-> call.minute,
                    ret |-> schedule, due |-> RestartDue32(schedule, call.uptime)]
    /\ last' = Idle
    /\ UNCHANGED shuntVars
    /\ UNCHANGED <<now, timeSynced, config, mode, inverter, shutdownTimeout, lastStatus,
          lastCalculation, calculationBackoffMs, batteryDischargeEnabled,
          nextInverterRestart, nextCalculateCheck, fullSolarPassThroughEnabled,
          lastRequestedPowerLimit, lastPowerLimitMillis, limitCmd, powerCmd, hist>>

NextWrap ==
    \/ readClock
    \/ callCalcNextInverterRestart32

InitWrap == \E h \in WrapHours : Boot([AdminConfig EXCEPT !.PowerLimiter_RestartHour = h])

SpecWrap == InitWrap /\ [][NextWrap]_vars

-----------------------------------------------------------------------------
(* The SmartShunt frame handler on any series of lines and frame ends.     *)

ShuntInstants == {0, 1000}

AdvanceClockShunt == Advance(ShuntInstants)

NextShunt ==
    \/ textRxEvent
    \/ frameEndEvent
    \/ AdvanceClockShunt

InitShunt == Boot(AdminConfig)

SpecShunt == InitShunt /\ [][NextShunt]_vars

-----------------------------------------------------------------------------
(* Properties.  last describes the call of loop() that led to the state:  *)
(* last.path = "None" when the last step was not a call of loop().        *)

IsTick == last.path # "None"

Commands(log, kinds) == {k \in 1..Len(log) : log[k].cmd \in kinds}

\* C1: no call of loop() sends a limit command to an inverter whose limit
\* command is pending, nor a start, stop or restart command to an inverter
\* whose power command is pending, where a command sent earlier in the same
\* call makes the respective state pending.
NoOverlappingCommands ==
    \A k \in 1..Len(last.sent) : ~last.sent[k].overlap

\* C2: a call of loop() that starts with valid time and with the shutdown
\* timer set and past its deadline clears the timer and releases the
\* inverter, whatever the inverter reports and whatever command is pending.
ShutdownTerminates ==
    (IsTick /\ timeSynced /\ last.timeout > 0 /\ last.timeout < now)
        => (shutdownTimeout = 0 /\ inverter = NoInverter)

ShutdownTerminatesWitness ==
    /\ IsTick /\ timeSynced
    /\ last.timeout > 0 /\ last.timeout < now
    /\ ~last.reachable /\ last.producing
    /\ last.target # NoInverter
    /\ limitCmd[last.target] = "CMD_PENDING"
    /\ powerCmd[last.target] = "CMD_PENDING"
    /\ shutdownTimeout = 0 /\ inverter = NoInverter

\* C3: once a shutdown attempt has timed out while the inverter kept
\* reporting production, and as long as the cause of the shutdown persists
\* and the inverter keeps reporting production, loop() sends no further stop
\* or limit command.
NoStopAfterGivingUp ==
    hist.gaveUp # "None" => Commands(last.sent, {"stop", "limit"}) = {}

\* C4 as stated: a call of shutdown() on a bound inverter that is unreachable
\* does not release the inverter unless the shutdown deadline has passed.
UnreachableKeepsBinding ==
    (last.shutdownCalled /\ last.target # NoInverter /\ ~last.reachable
        /\ ~(last.timeout > 0 /\ last.timeout < now))
        => inverter # NoInverter

\* C4: a call of shutdown() on a bound inverter that is unreachable and still
\* reports production does not release the inverter unless the shutdown
\* deadline has passed; without a deadline it keeps the inverter bound.
UnreachableProducingKeepsBinding ==
    (last.shutdownCalled /\ last.target # NoInverter /\ ~last.reachable
        /\ last.producing /\ ~(last.timeout > 0 /\ last.timeout < now))
        => (inverter = last.target /\ shutdownTimeout = last.timeout /\ last.shutdownRet)

UnreachableProducingKeepsBindingWitness ==
    /\ last.shutdownCalled /\ last.target # NoInverter
    /\ ~last.reachable /\ last.producing
    /\ last.timeout > 0 /\ last.timeout >= now
    /\ hist.seriesStart >= 0 /\ hist.seriesStart < now
    /\ inverter = last.target

\* C5: a call of shutdown() made more than 10 s after the first of the
\* consecutive calls on a bound inverter releases the inverter (hist.seriesStart
\* is the time of the first call as long as the inverter stays bound).
ShutdownClearsAfterTenSeconds ==
    (last.shutdownCalled /\ hist.seriesStart >= 0)
        => now - hist.seriesStart <= ShutdownTimeoutMs

\* C6: a call of loop() that starts with valid time and the shutdown timer
\* set only calls shutdown(): it keeps or releases the bound inverter, does
\* not call setNewPowerLimit, sends at most a stop command and the lower
\* limit, and leaves the calculation time and backoff, the battery discharge
\* flag, the full solar passthrough latch and the restart schedule as they
\* are.
ShutdownOnly ==
    [][ (timeSynced /\ shutdownTimeout > 0 /\ last'.path # "None")
          => /\ last'.path = "ShutdownInProgress"
             /\ last'.shutdownCalled /\ ~last'.setCalled
             /\ inverter' \in {inverter, NoInverter}
             /\ Commands(last'.sent, {"start", "restart"}) = {}
             /\ \A k \in Commands(last'.sent, {"limit"}) :
                    /\ last'.sent[k].value = config.PowerLimiter_LowerPowerLimit
                    /\ ~last'.producing \/ Commands(SubSeq(last'.sent, 1, k), {"stop"}) # {}
             /\ UNCHANGED <<lastCalculation, calculationBackoffMs,
                            batteryDischargeEnabled, fullSolarPassThroughEnabled,
                            nextInverterRestart, nextCalculateCheck>> ]_vars

ShutdownOnlyWitness ==
    /\ last.path = "ShutdownInProgress" /\ last.timeout > 0
    /\ shutdownTimeout > 0
    /\ inverter # NoInverter
    /\ getInverterByPos(config.PowerLimiter_InverterId) \notin {inverter, NoInverter}
    /\ Commands(last.sent, {"stop"}) # {}

BackoffDoubling ==
    /\ calculationBackoffMs =
           Min(CalculationBackoffMsCap, CalculationBackoffMsDefault * 2^hist.noOps)
    /\ (last.path = "Evaluate" /\ ~last.setRet) => lastStatus = "Stable"
    /\ (last.path = "Evaluate" /\ last.setRet)
           => (hist.noOps = 0 /\ calculationBackoffMs = CalculationBackoffMsDefault)

BackoffDoublingWitness ==
    /\ last.path = "Evaluate" /\ ~last.setRet
    /\ hist.noOps = 3
    /\ calculationBackoffMs = CalculationBackoffMsCap
    /\ lastRequestedPowerLimit > 0

\* C9: a call of setNewPowerLimit with a requested limit not below the lower
\* bound, an effective limit closer than the hysteresis to the last requested
\* limit and a last command younger than 60 s sends nothing, keeps the last
\* requested limit and its time, and returns false.
HysteresisKeepsLimit ==
    (last.setCalled
        /\ last.setRequested >= config.PowerLimiter_LowerPowerLimit
        /\ Abs(last.setEffective - last.setLast)
               < config.PowerLimiter_TargetPowerConsumptionHysteresis
        /\ last.setAge < PowerLimitMaxAgeMs)
        => /\ last.setSent = << >>
           /\ ~last.setRet
           /\ lastRequestedPowerLimit = last.setLast
           /\ lastPowerLimitMillis = now - last.setAge

HysteresisKeepsLimitWitness ==
    /\ last.setCalled /\ ~last.setRet
    /\ last.setRequested >= config.PowerLimiter_LowerPowerLimit
    /\ last.setLast >= config.PowerLimiter_LowerPowerLimit
    /\ last.setEffective # last.setLast
    /\ Abs(last.setEffective - last.setLast)
           < config.PowerLimiter_TargetPowerConsumptionHysteresis
    /\ last.setAge > 0 /\ last.setAge < PowerLimitMaxAgeMs

\* C10: a call of setNewPowerLimit with a requested limit not below the lower
\* bound, 60 s or more after the last command, sends the effective limit and
\* returns true, also when the effective limit is the last requested one.
StaleLimitIsResent ==
    (last.setCalled
        /\ last.setRequested >= config.PowerLimiter_LowerPowerLimit
        /\ last.setAge >= PowerLimitMaxAgeMs)
        => /\ last.setRet
           /\ \E k \in Commands(last.setSent, {"limit"}) :
                  last.setSent[k].value = last.setEffective
           /\ lastRequestedPowerLimit = last.setEffective
           /\ lastPowerLimitMillis = now

StaleLimitIsResentWitness ==
    /\ last.setCalled /\ last.setRet
    /\ last.setRequested >= config.PowerLimiter_LowerPowerLimit
    /\ last.setAge >= PowerLimitMaxAgeMs
    /\ last.setLast >= config.PowerLimiter_LowerPowerLimit
    /\ last.setEffective = last.setLast

\* C11: a call of commitPowerLimit(inverter, limit, enable) sends exactly one
\* limit command, absolute and non-persistent, with the given value; it sends
\* a stop command iff production is to be disabled and the inverter is
\* producing, and then before the limit; it sends a start command iff
\* production is to be enabled and the inverter is not producing, and then
\* after the limit; afterwards the last requested limit is the given value
\* and the last command time is the time of the call.
CommitOrder ==
    last.commitCalled =>
        LET cs == last.commitSent
            limits == Commands(cs, {"limit"})
            stops == Commands(cs, {"stop"})
            starts == Commands(cs, {"start"})
        IN  /\ Cardinality(limits) = 1
            /\ \A k \in limits : /\ cs[k].value = last.commitLimit
                                 /\ cs[k].type = "AbsolutNonPersistent"
            /\ (stops # {}) <=> (~last.commitEnable /\ last.producing)
            /\ \A k \in stops : \A j \in limits : k < j
            /\ (starts # {}) <=> (last.commitEnable /\ ~last.producing)
            /\ \A k \in starts : \A j \in limits : k > j
            /\ Len(cs) = Cardinality(limits \cup stops \cup starts)
            /\ lastRequestedPowerLimit = last.commitLimit
            /\ lastPowerLimitMillis = now

CommitOrderWitness ==
    /\ last.commitCalled /\ last.commitEnable /\ ~last.producing
    /\ Len(last.commitSent) = 2
    /\ last.commitSent[2].cmd = "start"
    /\ now > 0
    /\ lastRequestedPowerLimit # last.setLast

\* C12: a call of setNewPowerLimit with a requested limit below the lower
\* bound calls shutdown() and returns what shutdown() returns: true with the
\* inverter still bound and the shutdown timer running while the inverter
\* reports production, false with the inverter released and nothing sent
\* otherwise.  It sends no start command and no limit other than the lower
\* bound, so never the requested value.
LowLimitShutsDown ==
    (last.setCalled /\ last.setRequested < config.PowerLimiter_LowerPowerLimit) =>
        /\ last.shutdownCalled
        /\ last.setRet = last.shutdownRet
        /\ Commands(last.setSent, {"start", "restart"}) = {}
        /\ \A k \in Commands(last.setSent, {"limit"}) :
              /\ last.setSent[k].value = config.PowerLimiter_LowerPowerLimit
              /\ last.setSent[k].value # last.setRequested
        /\ last.setRet = last.producing
        /\ last.setRet => (inverter # NoInverter /\ shutdownTimeout > 0)
        /\ ~last.setRet => (inverter = NoInverter /\ shutdownTimeout = 0
                                /\ last.setSent = << >>)

LowLimitShutsDownWitness ==
    /\ last.setCalled /\ last.setRequested < config.PowerLimiter_LowerPowerLimit
    /\ last.setRet
    /\ Commands(last.setSent, {"stop"}) # {}
    /\ Commands(last.setSent, {"limit"}) # {}

\* the calculated demand: the rounded power meter reading, plus the AC power
\* of the inverter in whole watts if the inverter is behind the power meter,
\* minus the target consumption
Raw(in) ==
    RoundTenths(in.meterPower)
        + (IF config.PowerLimiter_IsInverterBehindPowerMeter
           THEN TruncTenths(in.stats.pac) ELSE 0)
        - config.PowerLimiter_TargetPowerConsumption

\* the calculated demand with the sum of meter reading and AC power rounded
RawOfSum(in) ==
    RoundTenths(in.meterPower
                + (IF config.PowerLimiter_IsInverterBehindPowerMeter
                   THEN in.stats.pac ELSE 0))
        - config.PowerLimiter_TargetPowerConsumption

\* the AC equivalent of the power of the solar charger
SolarAC(in) == inverterPowerDcToAc(in, getSolarChargePower(Machine, in))

IsCalcPowerLimit == call.fn = "calcPowerLimit"

\* C13: calcPowerLimit returns 0 when solar power is not usable and battery
\* discharge is disabled, whatever the meter reading, the target consumption,
\* the AC power of the inverter, the latch and the auto power status are, and
\* leaves the latch as it was.
NoSourceNoLimit ==
    (IsCalcPowerLimit /\ ~call.solarPowerEnabled /\ ~call.batteryDischargeEnabled)
        => (call.ret = 0 /\ fullSolarPassThroughEnabled = call.before)

NoSourceNoLimitWitness ==
    /\ IsCalcPowerLimit /\ ~call.solarPowerEnabled /\ ~call.batteryDischargeEnabled
    /\ Raw(call.in) = 600
    /\ call.before
    /\ ~call.in.autoPower

\* C14 as stated: with solar power usable and battery discharge disabled
\* calcPowerLimit returns min(raw, solarAC) for all inputs, raw being the
\* rounded sum of meter reading and AC power minus the target consumption.
SolarCapsLimitForAllInputs ==
    (IsCalcPowerLimit /\ call.solarPowerEnabled /\ ~call.batteryDischargeEnabled)
        => call.ret = Min(RawOfSum(call.in), SolarAC(call.in))

\* C14: with solar power usable and battery discharge disabled calcPowerLimit
\* returns 0 while the auto power status of the PSU is active and
\* min(raw, solarAC) otherwise, raw being the rounded meter reading plus the
\* AC power in whole watts minus the target consumption.
SolarCapsLimit ==
    (IsCalcPowerLimit /\ call.solarPowerEnabled /\ ~call.batteryDischargeEnabled)
        => call.ret = IF call.in.autoPower THEN 0
                      ELSE Min(Raw(call.in), SolarAC(call.in))

SolarCapsLimitWitness ==
    /\ IsCalcPowerLimit /\ call.solarPowerEnabled /\ ~call.batteryDischargeEnabled
    /\ ~call.in.autoPower
    /\ Raw(call.in) = 500
    /\ SolarAC(call.in) = 300
    /\ call.ret = 300

DischargeLimit ==
    (IsCalcPowerLimit /\ call.batteryDischargeEnabled /\ ~call.fullSolarPassthrough)
        => /\ ~fullSolarPassThroughEnabled \/ ~config.PowerLimiter_SolarPassThroughEnabled
           /\ call.ret = IF call.in.autoPower THEN 0 ELSE Raw(call.in)

DischargeLimitWitness ==
    /\ IsCalcPowerLimit /\ call.batteryDischargeEnabled /\ ~call.fullSolarPassthrough
    /\ ~fullSolarPassThroughEnabled
    /\ ~call.in.autoPower
    /\ call.solarPowerEnabled
    /\ SolarAC(call.in) = 300
    /\ call.ret = 500

IsCanUseDirectSolarPower == call.fn = "canUseDirectSolarPower"

\* C17 as stated: canUseDirectSolarPower() is false when solar passthrough is
\* disabled, when the battery is below or at the stop threshold, when the
\* solar charger is disabled or when its data is invalid, and otherwise true
\* iff the solar power is at least 20 W.
SolarUsableAboveStop ==
    IsCanUseDirectSolarPower =>
        call.ret = (/\ config.PowerLimiter_SolarPassThroughEnabled
                    /\ ~isStopThresholdReached(Machine, call.in)
                    /\ config.Vedirect_Enabled
                    /\ call.in.solar.valid
                    /\ call.in.solar.PPV >= 20)

\* C17: canUseDirectSolarPower() is false when solar passthrough is disabled,
\* when the battery is strictly below the stop threshold, when the solar
\* charger is disabled or when its data is invalid, and otherwise true iff
\* the solar power is at least 20 W; a battery exactly at the stop threshold
\* does not make it false.
SolarUsableAtOrAboveStop ==
    IsCanUseDirectSolarPower =>
        call.ret = (/\ config.PowerLimiter_SolarPassThroughEnabled
                    /\ ~isBelowStopThreshold(Machine, call.in)
                    /\ config.Vedirect_Enabled
                    /\ call.in.solar.valid
                    /\ call.in.solar.PPV >= 20)

SolarUsableAtOrAboveStopWitness ==
    /\ IsCanUseDirectSolarPower
    /\ call.ret
    /\ call.in.battery.soc = config.PowerLimiter_BatterySocStopThreshold
    /\ isStopThresholdReached(Machine, call.in)
    /\ call.in.solar.PPV = 20

\* C18: testThreshold(socThreshold, voltThreshold, compare) compares the SoC
\* of the battery with socThreshold iff the battery interface is enabled,
\* socThreshold > 0, the battery reading is valid and its SoC is less than
\* 60 s old; otherwise it returns false if voltThreshold <= 0 and else
\* compares the load corrected voltage with voltThreshold, that voltage being
\* 0 without a bound inverter or with a DC voltage <= 0.
ThresholdContract ==
    call.fn = "testThreshold" =>
        LET in == call.in
            useSoc == /\ config.Battery_Enabled
                      /\ call.socThreshold > 0
                      /\ in.battery.valid
                      /\ in.battery.socAge < 60
            voltage == IF inverter = NoInverter \/ in.stats.udc <= 0 THEN 0
                       ELSE 10 * in.stats.udc
                              + in.stats.pac * config.PowerLimiter_VoltageLoadCorrectionFactor
        IN  /\ useSoc => call.ret = Compare(call.op, in.battery.soc, call.socThreshold)
            /\ (~useSoc /\ call.voltThreshold <= 0) => ~call.ret
            /\ (~useSoc /\ call.voltThreshold > 0) =>
                  call.ret = Compare(call.op, voltage, 10 * call.voltThreshold)

ThresholdContractWitness ==
    /\ call.fn = "testThreshold"
    /\ call.socThreshold > 0 /\ config.Battery_Enabled
    /\ call.in.battery.valid /\ call.in.battery.socAge = 60
    /\ call.voltThreshold > 0
    /\ inverter = NoInverter
    /\ call.in.stats.udc > call.voltThreshold
    /\ call.op = "le"
    /\ call.ret

IsUseFullSolarPassthrough == call.fn = "useFullSolarPassthrough"

\* the thresholds of full solar passthrough are compared with the SoC
FullUsesSoc(in) ==
    /\ config.Battery_Enabled
    /\ config.PowerLimiter_FullSolarPassThroughSoc > 0
    /\ in.battery.valid
    /\ in.battery.socAge < 60

\* the measurement and the thresholds of full solar passthrough: SoC in
\* percent, or voltage in 0.1 mV
FullMeasurement(in) ==
    IF FullUsesSoc(in) THEN in.battery.soc ELSE getLoadCorrectedVoltage(Machine, in)
FullStart(in) ==
    IF FullUsesSoc(in) THEN config.PowerLimiter_FullSolarPassThroughSoc
    ELSE 10 * config.PowerLimiter_FullSolarPassThroughStartVoltage
FullStop(in) ==
    IF FullUsesSoc(in) THEN config.PowerLimiter_FullSolarPassThroughSoc
    ELSE 10 * config.PowerLimiter_FullSolarPassThroughStopVoltage
FullConfigured(in) ==
    \/ FullUsesSoc(in)
    \/ /\ config.PowerLimiter_FullSolarPassThroughStartVoltage > 0
       /\ config.PowerLimiter_FullSolarPassThroughStopVoltage > 0

\* C19 as stated: every evaluation of useFullSolarPassthrough() with a
\* measurement at or above the start threshold sets the latch, with one below
\* the stop threshold clears it, and with one in between keeps it.
LatchHysteresisAlways ==
    (IsUseFullSolarPassthrough /\ FullConfigured(call.in)) =>
        /\ FullMeasurement(call.in) >= FullStart(call.in) => fullSolarPassThroughEnabled
        /\ FullMeasurement(call.in) < FullStop(call.in) => ~fullSolarPassThroughEnabled
        /\ (/\ FullMeasurement(call.in) >= FullStop(call.in)
            /\ FullMeasurement(call.in) < FullStart(call.in))
              => fullSolarPassThroughEnabled = call.before

\* C19: with solar passthrough enabled every evaluation of
\* useFullSolarPassthrough() with a measurement below the stop threshold
\* clears the latch, with one at or above the start threshold and not below
\* the stop threshold sets it, and with one from the stop threshold up to but
\* below the start threshold keeps it, and returns the latch; with solar
\* passthrough disabled it returns false and keeps the latch.
LatchHysteresis ==
    IsUseFullSolarPassthrough =>
        /\ ~config.PowerLimiter_SolarPassThroughEnabled =>
              (~call.ret /\ fullSolarPassThroughEnabled = call.before)
        /\ config.PowerLimiter_SolarPassThroughEnabled =>
              call.ret = fullSolarPassThroughEnabled
        /\ (config.PowerLimiter_SolarPassThroughEnabled /\ FullConfigured(call.in)) =>
              /\ FullMeasurement(call.in) < FullStop(call.in)
                    => ~fullSolarPassThroughEnabled
              /\ (/\ FullMeasurement(call.in) >= FullStart(call.in)
                  /\ FullMeasurement(call.in) >= FullStop(call.in))
                    => fullSolarPassThroughEnabled
              /\ (/\ FullMeasurement(call.in) >= FullStop(call.in)
                  /\ FullMeasurement(call.in) < FullStart(call.in))
                    => fullSolarPassThroughEnabled = call.before

LatchHysteresisWitness ==
    /\ IsUseFullSolarPassthrough
    /\ config.PowerLimiter_SolarPassThroughEnabled
    /\ ~FullUsesSoc(call.in)
    /\ FullMeasurement(call.in) > FullStop(call.in)
    /\ FullMeasurement(call.in) < FullStart(call.in)
    /\ call.before
    /\ fullSolarPassThroughEnabled

\* C20: after every call of loop() that evaluates the battery charging cycle
\* with the stop threshold reached, the battery discharge flag is false,
\* whether or not the start threshold is reached as well and whatever the
\* passthrough setting and the drain strategy are, and calcPowerLimit was
\* called with discharge disabled: the limit is 0 unless solar power is usable.
StopDisablesDischarge ==
    (last.path = "Evaluate" /\ last.stopReached) =>
        /\ ~batteryDischargeEnabled
        /\ last.calcCalled
        /\ ~last.calcDischarge
        /\ last.setCalled
        /\ ~last.calcSolar => last.setRequested = 0

StopDisablesDischargeWitness ==
    /\ last.path = "Evaluate"
    /\ last.stopReached /\ last.startReached
    /\ last.dischargeBefore
    /\ ~batteryDischargeEnabled
    /\ config.PowerLimiter_SolarPassThroughEnabled
    /\ config.PowerLimiter_BatteryDrainStategy = EMPTY_AT_NIGHT

\* C21: the battery discharge flag changes only in a call of loop() that
\* reaches the battery charging cycle, and there by these rules: with the stop
\* threshold reached it becomes false; otherwise with the start threshold
\* reached it becomes true; otherwise with solar passthrough enabled and the
\* strategy empty-at-night it becomes the negation of canUseDirectSolarPower();
\* otherwise, and in every call that returns earlier and every other step, it
\* keeps its value.
DischargeFlagRules ==
    [][ batteryDischargeEnabled' =
          IF last'.path # "Evaluate" THEN batteryDischargeEnabled
          ELSE IF last'.stopReached THEN FALSE
          ELSE IF last'.startReached THEN TRUE
          ELSE IF config.PowerLimiter_SolarPassThroughEnabled
                    /\ config.PowerLimiter_BatteryDrainStategy = EMPTY_AT_NIGHT
          THEN ~last'.calcSolar
          ELSE batteryDischargeEnabled ]_vars

DischargeFlagRulesWitness ==
    /\ last.path = "Evaluate"
    /\ ~last.stopReached /\ ~last.startReached
    /\ config.PowerLimiter_SolarPassThroughEnabled
    /\ config.PowerLimiter_BatteryDrainStategy = EMPTY_WHEN_FULL
    /\ last.calcSolar
    /\ last.dischargeBefore
    /\ batteryDischargeEnabled

\* the DPL is disabled by configuration or by the mode
Disabled == ~config.PowerLimiter_Enabled \/ mode = "Disabled"

\* no limit and no power command of the bound inverter is pending
NothingPending ==
    /\ inverter # NoInverter
    /\ limitCmd[inverter] = "CMD_OK"
    /\ powerCmd[inverter] = "CMD_OK"

\* the shutdown timer is set and its deadline has passed
DeadlinePassed == shutdownTimeout > 0 /\ shutdownTimeout < now

\* the stop command followed by the configured lower limit
StopAndLowerLimit(log) ==
    /\ Len(log) = 2
    /\ log[1].cmd = "stop" /\ log[1].inv = inverter
    /\ log[2].cmd = "limit" /\ log[2].inv = inverter
    /\ log[2].value = config.PowerLimiter_LowerPowerLimit

\* C22 as stated: while the DPL is disabled no call of loop() sends a start
\* command or commits a limit with production enabled; a bound, reachable,
\* producing inverter with no command pending is sent a stop command followed
\* by the lower limit; with no inverter bound nothing is sent and none is bound.
DisabledAlwaysStops ==
    [][ (Disabled /\ last'.path # "None") =>
          /\ Commands(last'.sent, {"start"}) = {}
          /\ ~(last'.commitCalled /\ last'.commitEnable)
          /\ (NothingPending /\ last'.reachable /\ last'.producing)
                => StopAndLowerLimit(last'.sent)
          /\ inverter = NoInverter => (last'.sent = << >> /\ inverter' = NoInverter) ]_vars

\* C22: while the DPL is disabled no call of loop() sends a start command or
\* commits a limit with production enabled; a bound, reachable, producing
\* inverter with no command pending is sent a stop command followed by the
\* lower limit unless the deadline of a shutdown attempt has passed, in which
\* case the call sends nothing and releases the inverter; with no inverter
\* bound nothing is sent and none is bound.
DisabledStopsUntilDeadline ==
    [][ (Disabled /\ last'.path # "None") =>
          /\ Commands(last'.sent, {"start"}) = {}
          /\ ~(last'.commitCalled /\ last'.commitEnable)
          /\ (NothingPending /\ last'.reachable /\ last'.producing /\ ~DeadlinePassed)
                => (StopAndLowerLimit(last'.sent) /\ inverter' = inverter)
          /\ (inverter # NoInverter /\ timeSynced /\ DeadlinePassed)
                => (last'.sent = << >> /\ inverter' = NoInverter)
          /\ inverter = NoInverter => (last'.sent = << >> /\ inverter' = NoInverter) ]_vars

DisabledStopsUntilDeadlineWitness ==
    /\ Disabled
    /\ last.path \in {"DisabledByConfig", "DisabledByMqtt"}
    /\ last.reachable /\ last.producing
    /\ inverter # NoInverter
    /\ StopAndLowerLimit(last.sent)
    /\ shutdownTimeout = now + ShutdownTimeoutMs

\* the inverter the configuration selects
Target == getInverterByPos(config.PowerLimiter_InverterId)

\* C23: there is one binding, and every command of a call of loop() goes to
\* the inverter bound at its start or, without one, to the configured
\* inverter the call binds.  A call that starts with a bound inverter other
\* than the configured one only calls shutdown() on the bound inverter: it
\* sends at most a stop command and the lower limit to it, keeps or releases
\* it, and announces InverterChanged when no shutdown attempt is in progress
\* and the DPL is enabled.  The binding changes to another inverter only from
\* no binding.
OneBindingAtATime ==
    [][ /\ inverter' \in Inverters \cup {NoInverter}
        /\ \A k \in 1..Len(last'.sent) :
              last'.sent[k].inv = IF inverter # NoInverter THEN inverter ELSE Target
        /\ (inverter' # inverter /\ inverter' # NoInverter) => inverter = NoInverter
        /\ (last'.path # "None" /\ timeSynced /\ inverter # NoInverter
              /\ Target # NoInverter /\ Target # inverter) =>
              /\ last'.shutdownCalled /\ ~last'.setCalled
              /\ Commands(last'.sent, {"start", "restart"}) = {}
              /\ \A k \in Commands(last'.sent, {"limit"}) :
                    last'.sent[k].value = config.PowerLimiter_LowerPowerLimit
              /\ inverter' \in {inverter, NoInverter}
              /\ (shutdownTimeout = 0 /\ ~Disabled) =>
                    (last'.path = "InverterChanged" /\ lastStatus' = "InverterChanged") ]_vars

OneBindingAtATimeWitness ==
    /\ last.path = "InverterChanged"
    /\ last.target = 1 /\ Target = 2
    /\ inverter = 1
    /\ Len(last.sent) = 2
    /\ \A k \in 1..Len(last.sent) : last.sent[k].inv = 1

\* a call of loop() that none of the steps before the test of the mode
\* UnconditionalFullSolarPassthrough ends, and one in mode Normal: the time is valid, no shutdown attempt is in progress, the
\* DPL is enabled, the configured inverter exists and no other one is bound,
\* it is reachable and accepts commands, none is pending and its max power
\* is known
PastDeviceTests ==
    /\ last'.path # "None"
    /\ timeSynced /\ shutdownTimeout = 0
    /\ config.PowerLimiter_Enabled /\ mode # "Disabled"
    /\ Target # NoInverter /\ inverter \in {NoInverter, Target}
    /\ last'.in.reachable /\ last'.in.enableCommands
    /\ limitCmd[Target] = "CMD_OK" /\ powerCmd[Target] = "CMD_OK"
    /\ last'.in.maxPower > 0

ReachesPowerMeterTest == PastDeviceTests /\ mode = "Normal"

\* C24: in mode Normal a call of loop() calculates a limit, calls
\* setNewPowerLimit or commits a limit with production enabled only if the
\* power meter is enabled and its last reading is at most 30 s old; a call
\* that reaches the power meter test with the power meter disabled calls
\* shutdown(PowerMeterDisabled), and one with a reading older than 30 s calls
\* shutdown(PowerMeterTimeout).
NoLimitWithoutPowerMeter ==
    [][ (last'.path # "None" /\ mode = "Normal") =>
          /\ (\/ last'.calcCalled \/ last'.setCalled
              \/ (last'.commitCalled /\ last'.commitEnable)
              \/ Commands(last'.sent, {"start"}) # {})
                => /\ config.PowerMeter_Enabled
                   /\ now - last'.in.powerMeterLastUpdate <= 30000
          /\ (ReachesPowerMeterTest /\ ~config.PowerMeter_Enabled)
                => /\ last'.path = "PowerMeterDisabled"
                   /\ last'.shutdownCalled /\ lastStatus' = "PowerMeterDisabled"
          /\ (ReachesPowerMeterTest /\ config.PowerMeter_Enabled
                  /\ now - last'.in.powerMeterLastUpdate > 30000)
                => /\ last'.path = "PowerMeterTimeout"
                   /\ last'.shutdownCalled /\ lastStatus' = "PowerMeterTimeout" ]_vars

NoLimitWithoutPowerMeterWitness ==
    /\ mode = "Normal" /\ config.PowerMeter_Enabled
    /\ last.path = "PowerMeterTimeout"
    /\ now - last.in.powerMeterLastUpdate = 40000
    /\ last.in.producing
    /\ StopAndLowerLimit(last.sent)
    /\ lastRequestedPowerLimit = config.PowerLimiter_LowerPowerLimit

\* the end of the settling phase of the call of loop() that led to the state
SettlingEnd(in) == in.lastUpdateCommand + 3000

\* C25: in mode Normal a call of loop() calculates and commits a limit only
\* if the settling phase of 3 s after the last command answer is over and
\* both the inverter statistics and the power meter reading are strictly
\* newer than its end.  A call that reaches the settling test sends nothing
\* and announces Settling during the settling phase, else
\* InverterStatsPending with statistics not newer than its end, else
\* PowerMeterPending with a power meter reading not newer than its end.
SettlingWindow ==
    [][ (last'.path # "None" /\ mode = "Normal") =>
          LET in == last'.in
              waits(status) == /\ last'.path = status /\ lastStatus' = status
                               /\ last'.sent = << >>
                               /\ ~last'.calcCalled /\ ~last'.setCalled
                               /\ ~last'.shutdownCalled
          IN  /\ (\/ last'.calcCalled \/ last'.setCalled
                  \/ (last'.commitCalled /\ last'.commitEnable))
                    => /\ now >= SettlingEnd(in)
                       /\ in.statsLastUpdate > SettlingEnd(in)
                       /\ in.powerMeterLastUpdate > SettlingEnd(in)
              /\ (/\ ReachesPowerMeterTest /\ config.PowerMeter_Enabled
                  /\ now - in.powerMeterLastUpdate <= 30000)
                    => IF now < SettlingEnd(in) THEN waits("Settling")
                       ELSE IF in.statsLastUpdate <= SettlingEnd(in)
                       THEN waits("InverterStatsPending")
                       ELSE IF in.powerMeterLastUpdate <= SettlingEnd(in)
                       THEN waits("PowerMeterPending")
                       ELSE last'.path \in {"Stable", "Evaluate"} ]_vars

SettlingWindowWitness ==
    /\ mode = "Normal"
    /\ last.path = "InverterStatsPending"
    /\ now = SettlingEnd(last.in)
    /\ last.in.statsLastUpdate = SettlingEnd(last.in)
    /\ last.in.powerMeterLastUpdate = SettlingEnd(last.in)
    /\ lastStatus = "InverterStatsPending"

Unconditional == mode = "UnconditionalFullSolarPassthrough"

\* voltage x current of the solar charger in W, times the efficiency of the
\* inverter (the peak efficiency 96.7 % while it reports none), times the
\* share that the configured losses leave
SolarPassthroughLimit(in) ==
    (((in.solar.V * in.solar.I) \div 1000000)
        * (IF in.stats.eff > 0 THEN in.stats.eff ELSE 967)
        * (100 - config.PowerLimiter_SolarPassThroughLosses)) \div 100000

\* what a call of loop() in mode UnconditionalFullSolarPassthrough does with
\* solar data: it requests the solar power as limit, announces
\* UnconditionalSolarPassthrough, calculates no limit from the power meter and
\* leaves the calculation time, the backoff and the discharge flag alone
PassesSolarPowerThrough ==
    /\ last'.path = "UnconditionalSolarPassthrough"
    /\ last'.setCalled /\ ~last'.calcCalled
    /\ last'.setRequested = SolarPassthroughLimit(last'.in)
    /\ lastStatus' = "UnconditionalSolarPassthrough"
    /\ UNCHANGED <<lastCalculation, calculationBackoffMs, batteryDischargeEnabled,
                   fullSolarPassThroughEnabled>>

\* C26 as stated: in mode UnconditionalFullSolarPassthrough a call of loop()
\* with the inverter reachable, commands enabled, nothing pending, max power
\* known and solar data valid requests the solar power as limit and announces
\* UnconditionalSolarPassthrough.
UnconditionalWithValidData ==
    [][ (/\ last'.path # "None" /\ Unconditional
         /\ last'.in.reachable /\ last'.in.enableCommands
         /\ (inverter # NoInverter => limitCmd[inverter] = "CMD_OK"
                                        /\ powerCmd[inverter] = "CMD_OK")
         /\ limitCmd[Target] = "CMD_OK" /\ powerCmd[Target] = "CMD_OK"
         /\ last'.in.maxPower > 0
         /\ last'.in.solar.valid)
          => PassesSolarPowerThrough ]_vars

\* C26: in mode UnconditionalFullSolarPassthrough a call of loop() that
\* reaches the test of the mode (valid time, no shutdown attempt in progress,
\* DPL enabled, inverter reachable, commands enabled, nothing pending, max
\* power known) with the solar charger enabled and its data valid requests
\* the solar power as limit, whatever the power meter, the target consumption,
\* the battery, the settling phase and the backoff are, and announces
\* UnconditionalSolarPassthrough; with the solar charger disabled or without
\* valid data it calls shutdown(NoVeDirect) and requests no limit.
UnconditionalPassthrough ==
    [][ (PastDeviceTests /\ Unconditional) =>
          IF config.Vedirect_Enabled /\ last'.in.solar.valid
          THEN PassesSolarPowerThrough
          ELSE /\ last'.shutdownCalled /\ ~last'.setCalled
               /\ lastStatus' = "NoVeDirect" ]_vars

UnconditionalPassthroughWitness ==
    /\ Unconditional
    /\ last.path = "UnconditionalSolarPassthrough"
    /\ ~config.PowerMeter_Enabled
    /\ last.in.stats.udc < config.PowerLimiter_VoltageStopThreshold
    /\ last.setRequested = 287
    /\ last.setRet /\ last.commitEnable
    /\ lastStatus = "UnconditionalSolarPassthrough"

\* C27: a call of loop() that finds the inverter unreachable sends no command.
\* If the time is valid, no shutdown attempt is in progress, the DPL is
\* enabled, the configured inverter exists and no other inverter is bound,
\* the call announces InverterOffline, does not call shutdown() and leaves
\* the configured inverter bound, without a shutdown timer.
OfflineSendsNothing ==
    [][ (last'.path # "None" /\ ~last'.in.reachable) =>
          /\ last'.sent = << >>
          /\ ~last'.commitCalled /\ ~last'.setCalled
          /\ (/\ timeSynced /\ shutdownTimeout = 0
              /\ ~Disabled
              /\ Target # NoInverter /\ inverter \in {NoInverter, Target})
                => /\ last'.path = "InverterOffline"
                   /\ lastStatus' = "InverterOffline"
                   /\ ~last'.shutdownCalled
                   /\ inverter' = Target
                   /\ shutdownTimeout' = 0
                   /\ UNCHANGED <<limitCmd, powerCmd, lastRequestedPowerLimit,
                                  lastPowerLimitMillis>> ]_vars

OfflineSendsNothingWitness ==
    /\ last.path = "InverterOffline"
    /\ ~last.in.reachable /\ last.in.producing
    /\ inverter = Target
    /\ lastRequestedPowerLimit > 0
    /\ now > 0

\* C28: a call of loop() that reaches the restart check with a restart
\* schedule greater than 1 and not after the current time sends exactly one
\* restart command, before any other command and to the bound inverter, and
\* leaves a schedule strictly after the current time; a call with a schedule
\* of 0 or 1 or after the current time, and a call that does not reach the
\* restart check, sends no restart command.
RestartOncePerDeadline ==
    [][ last'.path # "None" =>
          LET restarts == Commands(last'.sent, {"restart"})
          IN  IF /\ last'.path = "Evaluate"
                 /\ nextInverterRestart > 1 /\ nextInverterRestart <= now
              THEN /\ Cardinality(restarts) = 1
                   /\ last'.sent[1].cmd = "restart"
                   /\ last'.sent[1].inv = Target
                   /\ nextInverterRestart' > now
                   /\ nextInverterRestart' > nextInverterRestart
              ELSE /\ restarts = {}
                   /\ last'.path # "Evaluate" => nextInverterRestart' = nextInverterRestart ]_vars

RestartOncePerDeadlineWitness ==
    /\ last.path = "Evaluate"
    /\ Cardinality(Commands(last.sent, {"restart"})) = 1
    /\ now = 70000
    /\ nextInverterRestart = 1440 * 60000 + now

IsCalcNextInverterRestart ==
    call.fn = "calcNextInverterRestart" /\ call.restartHour >= 0 /\ call.synced

\* minutes since midnight of the day of boot at time t
MinuteOfBootDay(t) == BootMinuteOfDay + t \div 60000

\* the offset to the next restart in minutes, as the claim gives it
MinutesUntil(H, h, m) ==
    IF H > h THEN H * 60 - (h * 60 + m) ELSE 1440 - (h * 60 + m) + H * 60

\* C29 as stated: calcNextInverterRestart with a restart hour H >= 0 and valid
\* local time h:m sets the schedule to now + 60000 * minutesUntil, where
\* minutesUntil is always in 1..1440.
NextRestartWithinADay ==
    IsCalcNextInverterRestart =>
        LET minutesUntil == MinutesUntil(call.restartHour, call.hour, call.minute)
        IN  /\ call.ret = now + 60000 * minutesUntil
            /\ minutesUntil \in 1..1440

\* C29: calcNextInverterRestart with a restart hour H >= 0 and valid local
\* time h:m sets the schedule to now + 60000 * minutesUntil, minutesUntil
\* being H*60 - (h*60+m) if H > h and 1440 - (h*60+m) + H*60 otherwise.  For H
\* in 0..23 minutesUntil is in 1..1440 and the schedule is the next time the
\* clock shows H:00: at most 60 minutes ahead if H = h+1, on the same day if
\* H > h and on the next day if H <= h.
NextRestartAtConfiguredHour ==
    IsCalcNextInverterRestart =>
        LET H == call.restartHour
            minutesUntil == MinutesUntil(H, call.hour, call.minute)
            at == MinuteOfBootDay(call.ret)
            from == MinuteOfBootDay(now)
        IN  /\ call.ret = now + 60000 * minutesUntil
            /\ nextInverterRestart = call.ret
            /\ minutesUntil >= 1
            /\ H <= 23 =>
                  /\ minutesUntil \in 1..1440
                  /\ Hour(call.ret) = H
                  /\ at % 60 = 0
                  /\ H = call.hour + 1 => minutesUntil <= 60
                  /\ H > call.hour => at \div 1440 = from \div 1440
                  /\ H <= call.hour => at \div 1440 = from \div 1440 + 1

NextRestartAtConfiguredHourWitness ==
    /\ IsCalcNextInverterRestart
    /\ call.restartHour = 12 /\ call.hour = 12 /\ call.minute = 0
    /\ call.ret = now + 1440 * 60000

\* C30 as stated: whenever the restart hour is negative the restart schedule
\* is 1 and the call of loop() that led to the state sent no restart command.
NegativeHourScheduleIsOne ==
    config.PowerLimiter_RestartHour < 0 =>
        /\ nextInverterRestart = 1
        /\ Commands(last.sent, {"restart"}) = {}

\* C30: while the restart hour is negative no call of loop() sends a restart
\* command and the restart schedule holds no deadline: it is 1 from the
\* configuration write or call of calcNextInverterRestart() on, also after a
\* change from a non-negative hour, and stays at its initial value 0 until
\* then.
NegativeHourDisablesRestart ==
    [][ config'.PowerLimiter_RestartHour < 0 =>
          /\ Commands(last'.sent, {"restart"}) = {}
          /\ nextInverterRestart' \in {0, 1}
          /\ (config' # config \/ call'.fn = "calcNextInverterRestart")
                => nextInverterRestart' = 1
          /\ (config' = config /\ nextInverterRestart = 1) => nextInverterRestart' = 1
          /\ nextInverterRestart' = 0 => nextInverterRestart = 0 ]_vars

NegativeHourDisablesRestartWitness ==
    /\ config.PowerLimiter_RestartHour < 0
    /\ nextInverterRestart = 1
    /\ last.path = "Evaluate"
    /\ now = 61 * 60000
    /\ last.sent # << >>

\* the handler is inside calcNextInverterRestart(), the schedule holds an
\* intermediate value
InCalculation == call.fn = "onAdminPost" /\ call.pc \in {"scale", "add"}

\* C31: with onAdminPost() running beside loop(), a call of loop() sends a
\* restart command only when the schedule it reads is a fully computed
\* deadline (> 1) that has been reached, never while the handler is inside the
\* calculation and the schedule holds an intermediate value.
RestartOnlyAtComputedDeadline ==
    [][ Commands(last'.sent, {"restart"}) # {} =>
          /\ ~InCalculation
          /\ nextInverterRestart > 1
          /\ nextInverterRestart <= now ]_vars

\* C32: no call of loop(), with the shutdowns and limit computations in it,
\* changes the mode; the mode changes only in a step of setMode(), which
\* touches nothing else of the limiter, and a configuration POST leaves the
\* mode at Normal.
ModeChangesOnlyBySetMode ==
    [][ /\ last'.path # "None" => mode' = mode
        /\ mode' # mode =>
              /\ last' = Idle
              /\ mode' \in Modes
              /\ UNCHANGED <<inverter, shutdownTimeout, lastStatus, lastCalculation,
                     calculationBackoffMs, batteryDischargeEnabled, nextCalculateCheck,
                     fullSolarPassThroughEnabled, lastRequestedPowerLimit,
                     lastPowerLimitMillis, limitCmd, powerCmd>>
        /\ config' # config => mode' = "Normal" ]_vars

ModeChangesOnlyBySetModeWitness ==
    /\ mode = "Disabled"
    /\ last.path = "DisabledByMqtt"
    /\ last.shutdownCalled
    /\ inverter = NoInverter
    /\ now = 20000
    /\ config.PowerLimiter_InverterId = 2

\* the statuses of the limiter
Statuses ==
    { "Initializing", "DisabledByConfig", "DisabledByMqtt", "WaitingForValidTimestamp",
      "PowerMeterDisabled", "PowerMeterTimeout", "PowerMeterPending", "InverterInvalid",
      "InverterChanged", "InverterOffline", "InverterCommandsDisabled",
      "InverterLimitPending", "InverterPowerCmdPending", "InverterDevInfoPending",
      "InverterStatsPending", "UnconditionalSolarPassthrough", "NoVeDirect",
      "Settling", "Stable" }

\* C33: one status is current in every state and only a call of loop() changes
\* it.  A call that gets to setNewPowerLimit leaves the status as it was,
\* also when the limit is below the lower bound and shutdown() is called,
\* unless setNewPowerLimit returns false and loop() announces Stable; a call
\* that finds a shutdown in progress keeps the status.
StatusChangesOnlyInLoop ==
    [][ /\ lastStatus' \in Statuses
        /\ last'.path = "None" => lastStatus' = lastStatus
        /\ last'.path = "Evaluate" =>
              lastStatus' = IF last'.setRet THEN lastStatus ELSE "Stable"
        /\ last'.path = "ShutdownInProgress" => lastStatus' = lastStatus ]_vars

StatusChangesOnlyInLoopWitness ==
    /\ last.path = "Evaluate"
    /\ last.setCalled /\ last.shutdownCalled /\ last.setRet
    /\ last.setRequested < config.PowerLimiter_LowerPowerLimit
    /\ lastStatus = "InverterStatsPending"

\* round(a / b) for a >= 0 and b > 0
Rounded(a, b) == (2 * a + b) \div (2 * b)

\* min(requested, upperBound) of the call of setNewPowerLimit in the tick
Capped(r) == Min(r.setRequested, config.PowerLimiter_UpperPowerLimit)

\* C34: for requested >= lowerBound the effective limit of setNewPowerLimit is
\* min(maxPower, min(requested, upperBound)) when no or every DC channel is
\* producing and min(maxPower, round(min(requested, upperBound) * total /
\* producing)) when 0 < producing < total; every limit committed with
\* production enabled is the effective limit and at most the maximum power.
EffectiveLimitFormula ==
    [][ /\ (last'.setCalled /\ last'.setRequested >= config.PowerLimiter_LowerPowerLimit) =>
              LET total == last'.in.stats.dcTotal
                  producing == last'.in.stats.dcProd
                  maxPower == last'.in.maxPower
              IN  /\ (producing = 0 \/ producing = total) =>
                         last'.setEffective = Min(maxPower, Capped(last'))
                  /\ (0 < producing /\ producing < total) =>
                         last'.setEffective =
                             Min(maxPower, Rounded(Capped(last') * total, producing))
                  /\ last'.setRet => (last'.commitCalled /\ last'.commitEnable)
        /\ (last'.commitCalled /\ last'.commitEnable) =>
              /\ last'.setCalled
              /\ last'.commitLimit = last'.setEffective
              /\ last'.commitLimit <= last'.in.maxPower ]_vars

EffectiveLimitFormulaWitness ==
    /\ last.setCalled /\ last.setRet
    /\ last.setRequested = 61
    /\ last.in.stats.dcTotal = 3 /\ last.in.stats.dcProd = 2
    /\ last.in.maxPower = 600
    /\ last.commitEnable /\ last.commitLimit = 92

\* C35: after a call of loop() in which setNewPowerLimit is called with a
\* limit at or above the lower bound, the inverter is producing or was sent a
\* start command in that call.
StartedWhenLimitSuffices ==
    [][ (last'.setCalled /\ last'.setRequested >= config.PowerLimiter_LowerPowerLimit) =>
           \/ last'.in.producing
           \/ Commands(last'.sent, {"start"}) # {} ]_vars

\* C36: a call of loop() during which the inverter's configuration prohibits
\* commands sends no command, on any path.
NoCommandsWhenProhibited ==
    [][ (last'.path # "None" /\ ~last'.in.enableCommands) => last'.sent = << >> ]_vars

\* C37: a shutdown timer that is set implies a bound inverter: the timer is
\* set only with an inverter bound, it is cleared in the step that clears
\* the binding, and while it stays set the binding is neither replaced nor
\* cleared.
TimerImpliesBinding ==
    /\ [](shutdownTimeout # 0 => inverter # NoInverter)
    /\ [][ /\ (shutdownTimeout = 0 /\ shutdownTimeout' # 0) =>
                 (inverter' # NoInverter /\ inverter' = last'.target)
           /\ (inverter # NoInverter /\ inverter' = NoInverter) => shutdownTimeout' = 0
           /\ (shutdownTimeout # 0 /\ shutdownTimeout' # 0) =>
                 (inverter' = inverter /\ shutdownTimeout' = shutdownTimeout) ]_vars

TimerImpliesBindingWitness ==
    /\ shutdownTimeout # 0
    /\ inverter = 1
    /\ config.PowerLimiter_InverterId = 2
    /\ mode = "Normal"
    /\ last.path = "ShutdownInProgress"

\* C38: when the configured inverter has changed from the bound inverter 1
\* to inverter 2, with valid time, the DPL enabled and the mode Normal,
\* continued ticking leads to inverter 2 being bound (or, in this model, to a
\* shutdown timer that the bounded clock cannot outrun).
TargetChangeBinds ==
    (inverter = 1 /\ config.PowerLimiter_InverterId = 2 /\ timeSynced)
        ~> (inverter = 2 \/ shutdownTimeout >= LastInstant)

\* C39: on the 32-bit clock the schedule calcNextInverterRestart computes for
\* a restart hour >= 0 and valid time is a deadline: it is neither 0 nor 1 and
\* it does not compare as reached at the uptime of the calculation.
ScheduleIsADeadline ==
    call.fn = "calcNextInverterRestart32" =>
        /\ call.ret # U32(0)
        /\ call.ret # U32(1)
        /\ ~call.due

\* the fields of a frame
ShuntFields == DOMAIN EmptyFrame

\* C40: veFrame changes only in a step of frameEndEvent(true) with a non-zero
\* PID in the temporary frame, which is reset in that step; and no field of
\* veFrame holds a value received in a frame whose checksum was invalid.
OnlyValidFramesPublished ==
    /\ [][ veFrame' # veFrame =>
              /\ Len(frames'.ended) = Len(frames.ended) + 1
              /\ frames'.ended[Len(frames'.ended)]
              /\ tmpFrame.PID # 0
              /\ veFrame' = tmpFrame
              /\ tmpFrame' = EmptyFrame ]_vars
    /\ [](\A f \in ShuntFields :
              frames.veFrom[f] # 0 => frames.ended[frames.veFrom[f]])

====
